---------------------------- MODULE Spec2Model ----------------------------
(***************************************************************************)
(* State-machine model of the governance and treasury contracts:           *)
(*   DAO   (src/unnamed/part_001, lines 339-669)                           *)
(*   Vault (src/unnamed/part_002, lines 1-448)                             *)
(* Every external function f has an operator fResult, the translation of   *)
(* its modifiers and require statements in the order the EVM evaluates     *)
(* them: its value is the revert reason of the call in the current state,  *)
(* or "ok" when the call succeeds.  The action f is the successful call.   *)
(* A call that reverts rolls back every change it made, so it is a         *)
(* stuttering step of the specification.                                   *)
(***************************************************************************)
EXTENDS Integers, Sequences, FiniteSets, TLC

(***************************************************************************)
(* Bounds of the model.                                                    *)
(***************************************************************************)
NumAddr == 3          \* externally owned accounts 1..NumAddr
MaxProposals == 1     \* DAO proposals created in one behaviour
MaxSequence == 3      \* DAO proposals created in one behaviour of the id specification
MaxTicks == 3         \* clock advances in one DAO behaviour
MaxVaultTicks == 2    \* clock advances in one Vault behaviour
MaxSpending == 1      \* spending proposals created in one Vault behaviour
MaxSupply == 3        \* units of each asset in circulation
MaxInitSignatures == 2 \* largest _requiredSignatures given to the constructor
MaxDAOs == 11         \* DAOs deployed by the factory in one behaviour
MaxRegistryDAOs == 2  \* DAOs deployed in one behaviour of the registry
MaxVaults == 6        \* Vaults deployed by VaultFactory in one behaviour
MaxLimitVaults == 2   \* Vaults deployed in one behaviour of the limit specification

(***************************************************************************)
(* Addresses.  ZERO is address(0).                                         *)
(***************************************************************************)
ZERO == 0
Users == 1..NumAddr
Addr == {ZERO} \cup Users

(***************************************************************************)
(* Program constants of DAO (seconds).                                     *)
(***************************************************************************)
MIN_PROPOSAL_DURATION == 3600
MAX_PROPOSAL_DURATION == 2592000
MAX_MEMBERS == 1000
DEFAULT_QUORUM == 51

\* The clock advances in steps of half the shortest voting period, so that a
\* deadline is met exactly and is also strictly passed.
TickLen == MIN_PROPOSAL_DURATION \div 2

\* Inputs of the calls, valid and invalid.
Durations == {MIN_PROPOSAL_DURATION - TickLen, MIN_PROPOSAL_DURATION,
              MIN_PROPOSAL_DURATION + TickLen, MAX_PROPOSAL_DURATION + 1}
QuorumInputs == {0, DEFAULT_QUORUM, 100, 101}
Texts == {"", "T"}
ProposalIds == 0..(MaxProposals + 1)

VARIABLES
    now,               \* block.timestamp
    owner,             \* Ownable._owner of the DAO
    paused,            \* Pausable._paused of the DAO
    members,           \* mapping(address => bool)
    memberList,        \* address[]
    memberCount,       \* uint256
    proposals,         \* mapping(uint256 => Proposal), ids 1..proposalCount
    proposalCount,     \* uint256
    quorumPercentage,  \* uint256
    attachedVault,     \* address
    votesCast,         \* history: successful vote calls per <<proposal, address>>
    vaultOwner,            \* Ownable._owner of the Vault
    vaultPaused,           \* Pausable._paused of the Vault
    daoAddress,            \* address
    withdrawalLimit,       \* uint256
    requiredSignatures,    \* uint256
    spendingProposalCount, \* uint256
    authorizedSigners,     \* mapping(address => bool)
    spendingProposals,     \* mapping(uint256 => SpendingProposal)
    tokenBalances,         \* mapping(address => uint256), token => balance
    signerList,            \* address[]
    supportedTokens,       \* address[]
    custody,               \* asset => amount of it the Vault really holds
    received,              \* asset => amount the recipient got from the Vault
    lapsed,                \* history: spending proposals short of approvals at their deadline
    factoryOwner,          \* Ownable._owner of DAOFactory
    factoryPaused,         \* Pausable._paused of DAOFactory
    userDAOs,              \* mapping(address => address[])
    daoToVault,            \* mapping(address => address)
    vaultToDAO,            \* mapping(address => address)
    allDAOs,               \* address[]
    daoCount,              \* uint256
    daoOwners,             \* DAO(d).owner() of the DAOs the factory deployed
    daoMembers,            \* members, memberList, memberCount of those DAOs
    factoryNonce,          \* number of contracts the factory has deployed
    vaultFactoryOwner,         \* Ownable._owner of VaultFactory
    daoVaults,                 \* mapping(address => address[])
    factoryVaultToDAO,         \* VaultFactory.vaultToDAO, mapping(address => address)
    allVaults,                 \* address[]
    vaultCount,                \* uint256
    defaultWithdrawalLimit,    \* uint256
    defaultRequiredSignatures, \* uint256
    createdVaults,             \* owner and parameters of the vaults VaultFactory deployed
    vaultNonce                 \* number of contracts VaultFactory has deployed

daoVars == <<owner, paused, members, memberList, memberCount, proposals,
             proposalCount, quorumPercentage, attachedVault>>
vaultVars == <<vaultOwner, vaultPaused, daoAddress, withdrawalLimit,
               requiredSignatures, spendingProposalCount, authorizedSigners,
               spendingProposals, tokenBalances, signerList, supportedTokens,
               custody, received, lapsed>>
factoryVars == <<factoryOwner, factoryPaused, userDAOs, daoToVault, vaultToDAO,
                 allDAOs, daoCount, daoOwners, daoMembers, factoryNonce>>
vaultFactoryVars == <<vaultFactoryOwner, daoVaults, factoryVaultToDAO, allVaults,
                      vaultCount, defaultWithdrawalLimit,
                      defaultRequiredSignatures, createdVaults, vaultNonce>>
vars == <<now, daoVars, votesCast, vaultVars, factoryVars, vaultFactoryVars>>

(***************************************************************************)
(* Array helpers.                                                          *)
(***************************************************************************)
Range(s) == {s[i] : i \in 1..Len(s)}

\* The removal loop: the first occurrence of x is overwritten by the last
\* element and the array is popped; an array without x is left as it is.
\* Mutant: the element is overwritten by the last one but the array is not popped.
SwapRemove_NoPop(list, x) ==
    IF x \notin Range(list) THEN list
    ELSE LET i == CHOOSE k \in 1..Len(list) : list[k] = x
         IN  [list EXCEPT ![i] = list[Len(list)]]

SwapRemove(list, x) ==
    IF x \notin Range(list) THEN list
    ELSE LET i == CHOOSE k \in 1..Len(list) :
                      /\ list[k] = x
                      /\ \A j \in 1..(k - 1) : list[j] # x
             n == Len(list)
         IN  SubSeq([list EXCEPT ![i] = list[n]], 1, n - 1)

(***************************************************************************)
(* DAO: modifiers.                                                         *)
(***************************************************************************)
\* Mutant: every caller passes for a member.
onlyMember_Anyone(sender) == TRUE

onlyMember(sender) == members[sender] \/ sender = owner

validProposal(proposalId) == proposalId > 0 /\ proposalId <= proposalCount

(***************************************************************************)
(* DAO: constructor(_name, _owner), as called with a non-empty name and    *)
(* owner 1.                                                                *)
(***************************************************************************)
DAO_constructor(_owner) ==
    /\ owner = _owner
    /\ paused = FALSE
    /\ members = [a \in Addr |-> a = _owner]
    /\ memberList = <<_owner>>
    /\ memberCount = 1
    /\ proposals = <<>>
    /\ proposalCount = 0
    /\ quorumPercentage = DEFAULT_QUORUM
    /\ attachedVault = ZERO

(***************************************************************************)
(* DAO.addMember                                                           *)
(***************************************************************************)
addMemberResult(sender, member) ==
    IF sender # owner THEN "Ownable: caller is not the owner"
    ELSE IF paused THEN "Pausable: paused"
    ELSE IF member = ZERO THEN "Invalid member address"
    ELSE IF members[member] THEN "Already a member"
    ELSE IF ~(memberCount < MAX_MEMBERS) THEN "Max members reached"
    ELSE "ok"

addMember(sender, member) ==
    /\ addMemberResult(sender, member) = "ok"
    /\ members' = [members EXCEPT ![member] = TRUE]
    /\ memberList' = Append(memberList, member)
    /\ memberCount' = memberCount + 1
    /\ UNCHANGED <<now, owner, paused, proposals, proposalCount,
                   quorumPercentage, votesCast,
                   attachedVault, vaultVars, factoryVars,
                   vaultFactoryVars>>

(***************************************************************************)
(* DAO.removeMember                                                        *)
(***************************************************************************)
removeMemberResult(sender, member) ==
    IF sender # owner THEN "Ownable: caller is not the owner"
    ELSE IF paused THEN "Pausable: paused"
    ELSE IF member = ZERO THEN "Invalid member address"
    ELSE IF ~members[member] THEN "Not a member"
    ELSE IF member = owner THEN "Cannot remove owner"
    ELSE "ok"

removeMember(sender, member) ==
    /\ removeMemberResult(sender, member) = "ok"
    /\ members' = [members EXCEPT ![member] = FALSE]
    /\ memberList' = SwapRemove(memberList, member)
    /\ memberCount' = memberCount - 1
    /\ UNCHANGED <<now, owner, paused, proposals, proposalCount,
                   quorumPercentage, votesCast,
                   attachedVault, vaultVars, factoryVars,
                   vaultFactoryVars>>

(***************************************************************************)
(* DAO.propose                                                             *)
(***************************************************************************)
proposeResult(sender, title, description, duration) ==
    IF ~onlyMember(sender) THEN "Not a member"
    ELSE IF paused THEN "Pausable: paused"
    ELSE IF ~(Len(title) > 0) THEN "Title cannot be empty"
    ELSE IF ~(Len(description) > 0) THEN "Description cannot be empty"
    ELSE IF ~(duration >= MIN_PROPOSAL_DURATION /\ duration <= MAX_PROPOSAL_DURATION)
         THEN "Invalid duration"
    ELSE "ok"

\* Mutant: the id is taken before proposalCount is incremented.
newProposal_OldCount(proposalId, sender, title, description, duration) ==
    [id |-> proposalId - 1, title |-> title, description |-> description,
     yesVotes |-> 0, noVotes |-> 0, deadline |-> now + duration,
     executed |-> FALSE, proposer |-> sender,
     hasVoted |-> [a \in Addr |-> FALSE]]

newProposal(proposalId, sender, title, description, duration) ==
    [id |-> proposalId, title |-> title, description |-> description,
     yesVotes |-> 0, noVotes |-> 0, deadline |-> now + duration,
     executed |-> FALSE, proposer |-> sender,
     hasVoted |-> [a \in Addr |-> FALSE]]

propose(sender, title, description, duration) ==
    /\ proposeResult(sender, title, description, duration) = "ok"
    /\ proposalCount < MaxSequence
    /\ proposalCount' = proposalCount + 1
    /\ proposals' = Append(proposals,
          newProposal(proposalCount + 1, sender, title, description, duration))
    /\ UNCHANGED <<now, owner, paused, members, memberList, memberCount,
                   quorumPercentage, votesCast,
                   attachedVault, vaultVars, factoryVars,
                   vaultFactoryVars>>

(***************************************************************************)
(* DAO.vote                                                                *)
(***************************************************************************)
\* Mutant: the "Already voted" requirement is missing.
voteResult_NoAlreadyVoted(sender, proposalId) ==
    IF ~onlyMember(sender) THEN "Not a member"
    ELSE IF paused THEN "Pausable: paused"
    ELSE IF ~validProposal(proposalId) THEN "Invalid proposal ID"
    ELSE IF ~(now < proposals[proposalId].deadline) THEN "Voting period ended"
    ELSE IF proposals[proposalId].executed THEN "Proposal already executed"
    ELSE "ok"

\* Mutant: votes are taken after the deadline too.
voteResult_NoDeadline(sender, proposalId) ==
    IF ~onlyMember(sender) THEN "Not a member"
    ELSE IF paused THEN "Pausable: paused"
    ELSE IF ~validProposal(proposalId) THEN "Invalid proposal ID"
    ELSE IF proposals[proposalId].hasVoted[sender] THEN "Already voted"
    ELSE IF proposals[proposalId].executed THEN "Proposal already executed"
    ELSE "ok"

voteResult(sender, proposalId) ==
    IF ~onlyMember(sender) THEN "Not a member"
    ELSE IF paused THEN "Pausable: paused"
    ELSE IF ~validProposal(proposalId) THEN "Invalid proposal ID"
    ELSE IF ~(now < proposals[proposalId].deadline) THEN "Voting period ended"
    ELSE IF proposals[proposalId].hasVoted[sender] THEN "Already voted"
    ELSE IF proposals[proposalId].executed THEN "Proposal already executed"
    ELSE "ok"

\* Mutant: the vote is counted but the caller is not marked.
castVote_NoMark(proposal, sender, support) ==
    [proposal EXCEPT !.yesVotes = IF support THEN @ + 1 ELSE @,
                     !.noVotes = IF support THEN @ ELSE @ + 1]

\* The body of vote: the caller is marked and one vote is counted.
castVote(proposal, sender, support) ==
    [proposal EXCEPT !.hasVoted[sender] = TRUE,
                     !.yesVotes = IF support THEN @ + 1 ELSE @,
                     !.noVotes = IF support THEN @ ELSE @ + 1]

vote(sender, proposalId, support) ==
    /\ voteResult(sender, proposalId) = "ok"
    /\ proposals' = [proposals EXCEPT
          ![proposalId] = castVote(proposals[proposalId], sender, support)]
    /\ votesCast' = [votesCast EXCEPT ![<<proposalId, sender>>] = @ + 1]
    /\ UNCHANGED <<now, owner, paused, members, memberList, memberCount,
                   proposalCount, quorumPercentage,
                   attachedVault, vaultVars, factoryVars,
                   vaultFactoryVars>>

(***************************************************************************)
(* DAO.executeProposal                                                     *)
(***************************************************************************)
totalVotes(proposal) == proposal.yesVotes + proposal.noVotes

requiredQuorum == (memberCount * quorumPercentage) \div 100

\* Mutant: the quorum comparison is strict.
executeProposalResult_StrictQuorum(proposalId) ==
    IF paused THEN "Pausable: paused"
    ELSE IF ~validProposal(proposalId) THEN "Invalid proposal ID"
    ELSE IF ~(now >= proposals[proposalId].deadline) THEN "Voting period not ended"
    ELSE IF proposals[proposalId].executed THEN "Proposal already executed"
    ELSE IF ~(totalVotes(proposals[proposalId]) > requiredQuorum) THEN "Quorum not reached"
    ELSE IF ~(proposals[proposalId].yesVotes > proposals[proposalId].noVotes)
         THEN "Proposal rejected"
    ELSE "ok"

\* Mutant: the "Proposal already executed" requirement is missing.
executeProposalResult_NoExecutedCheck(proposalId) ==
    IF paused THEN "Pausable: paused"
    ELSE IF ~validProposal(proposalId) THEN "Invalid proposal ID"
    ELSE IF ~(now >= proposals[proposalId].deadline) THEN "Voting period not ended"
    ELSE IF ~(totalVotes(proposals[proposalId]) >= requiredQuorum) THEN "Quorum not reached"
    ELSE IF ~(proposals[proposalId].yesVotes > proposals[proposalId].noVotes)
         THEN "Proposal rejected"
    ELSE "ok"

\* Mutant: execution does not wait for the deadline.
executeProposalResult_Early(proposalId) ==
    IF paused THEN "Pausable: paused"
    ELSE IF ~validProposal(proposalId) THEN "Invalid proposal ID"
    ELSE IF proposals[proposalId].executed THEN "Proposal already executed"
    ELSE IF ~(totalVotes(proposals[proposalId]) >= requiredQuorum) THEN "Quorum not reached"
    ELSE IF ~(proposals[proposalId].yesVotes > proposals[proposalId].noVotes)
         THEN "Proposal rejected"
    ELSE "ok"

executeProposalResult(proposalId) ==
    IF paused THEN "Pausable: paused"
    ELSE IF ~validProposal(proposalId) THEN "Invalid proposal ID"
    ELSE IF ~(now >= proposals[proposalId].deadline) THEN "Voting period not ended"
    ELSE IF proposals[proposalId].executed THEN "Proposal already executed"
    ELSE IF ~(totalVotes(proposals[proposalId]) >= requiredQuorum) THEN "Quorum not reached"
    ELSE IF ~(proposals[proposalId].yesVotes > proposals[proposalId].noVotes)
         THEN "Proposal rejected"
    ELSE "ok"

executeProposal(sender, proposalId) ==
    /\ executeProposalResult(proposalId) = "ok"
    /\ proposals' = [proposals EXCEPT ![proposalId].executed = TRUE]
    /\ UNCHANGED <<now, owner, paused, members, memberList, memberCount,
                   proposalCount, quorumPercentage, votesCast,
                   attachedVault, vaultVars, factoryVars,
                   vaultFactoryVars>>

(***************************************************************************)
(* DAO.setQuorumPercentage, DAO.pause, DAO.unpause                         *)
(***************************************************************************)
setQuorumPercentageResult(sender, _quorumPercentage) ==
    IF sender # owner THEN "Ownable: caller is not the owner"
    ELSE IF ~(_quorumPercentage > 0 /\ _quorumPercentage <= 100)
         THEN "Invalid quorum percentage"
    ELSE "ok"

setQuorumPercentage(sender, _quorumPercentage) ==
    /\ setQuorumPercentageResult(sender, _quorumPercentage) = "ok"
    /\ quorumPercentage' = _quorumPercentage
    /\ UNCHANGED <<now, owner, paused, members, memberList, memberCount,
                   proposals, proposalCount, votesCast,
                   attachedVault, vaultVars, factoryVars,
                   vaultFactoryVars>>

DAO_pauseResult(sender) ==
    IF sender # owner THEN "Ownable: caller is not the owner"
    ELSE IF paused THEN "Pausable: paused"
    ELSE "ok"

DAO_pause(sender) ==
    /\ DAO_pauseResult(sender) = "ok"
    /\ paused' = TRUE
    /\ UNCHANGED <<now, owner, members, memberList, memberCount, proposals,
                   proposalCount, quorumPercentage, votesCast,
                   attachedVault, vaultVars, factoryVars,
                   vaultFactoryVars>>

DAO_unpauseResult(sender) ==
    IF sender # owner THEN "Ownable: caller is not the owner"
    ELSE IF ~paused THEN "Pausable: not paused"
    ELSE "ok"

DAO_unpause(sender) ==
    /\ DAO_unpauseResult(sender) = "ok"
    /\ paused' = FALSE
    /\ UNCHANGED <<now, owner, members, memberList, memberCount, proposals,
                   proposalCount, quorumPercentage, votesCast,
                   attachedVault, vaultVars, factoryVars,
                   vaultFactoryVars>>

(***************************************************************************)
(* DAO.attachVault, DAO.detachVault                                        *)
(***************************************************************************)
\* Mutant: the "Vault already attached" requirement is missing.
attachVaultResult_NoAttachedCheck(sender, vaultAddress) ==
    IF sender # owner THEN "Ownable: caller is not the owner"
    ELSE IF paused THEN "Pausable: paused"
    ELSE IF vaultAddress = ZERO THEN "Invalid vault address"
    ELSE "ok"

attachVaultResult(sender, vaultAddress) ==
    IF sender # owner THEN "Ownable: caller is not the owner"
    ELSE IF paused THEN "Pausable: paused"
    ELSE IF vaultAddress = ZERO THEN "Invalid vault address"
    ELSE IF attachedVault # ZERO THEN "Vault already attached"
    ELSE "ok"

attachVault(sender, vaultAddress) ==
    /\ attachVaultResult(sender, vaultAddress) = "ok"
    /\ attachedVault' = vaultAddress
    /\ UNCHANGED <<now, owner, paused, members, memberList, memberCount,
                   proposals, proposalCount, quorumPercentage, votesCast,
                   vaultVars, factoryVars,
                   vaultFactoryVars>>

detachVaultResult(sender) ==
    IF sender # owner THEN "Ownable: caller is not the owner"
    ELSE IF paused THEN "Pausable: paused"
    ELSE IF attachedVault = ZERO THEN "No vault attached"
    ELSE "ok"

detachVault(sender) ==
    /\ detachVaultResult(sender) = "ok"
    /\ attachedVault' = ZERO
    /\ UNCHANGED <<now, owner, paused, members, memberList, memberCount,
                   proposals, proposalCount, quorumPercentage, votesCast,
                   vaultVars, factoryVars,
                   vaultFactoryVars>>

(***************************************************************************)
(* Ownable, inherited by DAO: transferOwnership and renounceOwnership, as  *)
(* the bot service calls them on a DAO.                                    *)
(***************************************************************************)
DAO_transferOwnershipResult(sender, newOwner) ==
    IF sender # owner THEN "Ownable: caller is not the owner"
    ELSE IF newOwner = ZERO THEN "Ownable: new owner is the zero address"
    ELSE "ok"

DAO_transferOwnership(sender, newOwner) ==
    /\ DAO_transferOwnershipResult(sender, newOwner) = "ok"
    /\ owner' = newOwner
    /\ UNCHANGED <<now, paused, members, memberList, memberCount, proposals,
                   proposalCount, quorumPercentage, votesCast,
                   attachedVault, vaultVars, factoryVars,
                   vaultFactoryVars>>

DAO_renounceOwnershipResult(sender) ==
    IF sender # owner THEN "Ownable: caller is not the owner" ELSE "ok"

DAO_renounceOwnership(sender) ==
    /\ DAO_renounceOwnershipResult(sender) = "ok"
    /\ owner' = ZERO
    /\ UNCHANGED <<now, paused, members, memberList, memberCount, proposals,
                   proposalCount, quorumPercentage, votesCast,
                   attachedVault, vaultVars, factoryVars,
                   vaultFactoryVars>>

(***************************************************************************)
(* The clock.                                                              *)
(***************************************************************************)
Tick ==
    /\ now < MaxTicks * TickLen
    /\ now' = now + TickLen
    /\ UNCHANGED <<daoVars, votesCast,
                   vaultVars, factoryVars,
                   vaultFactoryVars>>

(***************************************************************************)
(* Vault.  Amounts are in units of 0.01 ether (the smallest withdrawal     *)
(* limit VaultFactory accepts), so that they fit the model's integers.     *)
(***************************************************************************)
MAX_SIGNERS == 20
MIN_SIGNATURES == 1
PROPOSAL_DURATION == 604800

\* The address of VaultFactory, which deploys the vaults it creates, of one
\* ERC20 token contract, and of the Vault itself; address(0) stands for ETH.
FACTORY == NumAddr + 1
TOKEN == NumAddr + 2
VAULT == NumAddr + 3
Assets == {ZERO, TOKEN}
VaultAddr == Addr \cup {FACTORY}

\* MAX_SIGNERS further accounts, apart from every other address, that the
\* owner can make signers, and the addresses that authorizedSigners maps.
SignerBase == VAULT + MaxDAOs + 1 + MaxVaults
ExtraSigners == (SignerBase + 1)..(SignerBase + MAX_SIGNERS)
SignerAddr == VaultAddr \cup ExtraSigners

\* The account that receives the payments, the account that creates the DAO
\* and the Vault, the account the Vault was created for (daoAddress), and the
\* account the owner makes a signer in the Vault specification.
Recipient == NumAddr
Creator == 1
DaoCaller == 2
SecondSigner == 2

VaultTickLen == PROPOSAL_DURATION \div 2

\* Inputs of the calls, valid and invalid.
Amounts == 0..MaxSupply
Limits == {1, 2}
SignatureInputs == 0..(NumAddr + 1)
SignerInputs == {ZERO, SecondSigner}
RecipientInputs == {ZERO, Recipient}
SpendingIds == 0..(MaxSpending + 1)

otherVars == <<daoVars, votesCast, factoryVars, vaultFactoryVars>>

\* Modifiers.
onlyAuthorizedSigner(sender) == authorizedSigners[sender] \/ sender = vaultOwner

validSpendingProposal(proposalId) ==
    proposalId > 0 /\ proposalId <= spendingProposalCount

(***************************************************************************)
(* Vault: constructor(_daoAddress, _withdrawalLimit, _requiredSignatures)  *)
(* run by `deployer`, followed, when the deployer is VaultFactory, by      *)
(* newVault.transferOwnership(msg.sender): `creator` is the owner.         *)
(***************************************************************************)
Vault_constructorResult(_daoAddress, _requiredSignatures) ==
    IF _daoAddress = ZERO THEN "Invalid DAO address"
    ELSE IF ~(_requiredSignatures >= MIN_SIGNATURES) THEN "Invalid signature requirement"
    ELSE "ok"

Vault_constructor(deployer, creator, _daoAddress, _withdrawalLimit, _requiredSignatures) ==
    /\ Vault_constructorResult(_daoAddress, _requiredSignatures) = "ok"
    /\ vaultOwner = creator
    /\ vaultPaused = FALSE
    /\ daoAddress = _daoAddress
    /\ withdrawalLimit = _withdrawalLimit
    /\ requiredSignatures = _requiredSignatures
    /\ spendingProposalCount = 0
    /\ authorizedSigners = [a \in SignerAddr |-> a = deployer]
    /\ spendingProposals = <<>>
    /\ tokenBalances = [t \in Assets |-> 0]
    /\ signerList = <<deployer>>
    /\ supportedTokens = <<>>

(***************************************************************************)
(* Vault.depositETH, Vault.receive, Vault.depositToken                     *)
(***************************************************************************)
\* The asset in circulation is bounded: what the Vault holds and what it
\* paid out never exceeds MaxSupply.
CanFund(token, amount) == custody[token] + received[token] + amount <= MaxSupply

depositETHResult(value) ==
    IF vaultPaused THEN "Pausable: paused"
    ELSE IF ~(value > 0) THEN "Deposit amount must be greater than 0"
    ELSE "ok"

depositETH(sender, value) ==
    /\ depositETHResult(value) = "ok"
    /\ CanFund(ZERO, value)
    /\ tokenBalances' = [tokenBalances EXCEPT ![ZERO] = @ + value]
    /\ custody' = [custody EXCEPT ![ZERO] = @ + value]
    /\ UNCHANGED <<now, otherVars, lapsed, vaultOwner, vaultPaused, daoAddress,
                   withdrawalLimit, requiredSignatures, spendingProposalCount,
                   authorizedSigners, spendingProposals, signerList,
                   supportedTokens, received>>

\* A plain transfer of ETH to the Vault.
receive(sender, value) ==
    /\ CanFund(ZERO, value)
    /\ tokenBalances' = IF value > 0
                        THEN [tokenBalances EXCEPT ![ZERO] = @ + value]
                        ELSE tokenBalances
    /\ custody' = [custody EXCEPT ![ZERO] = @ + value]
    /\ UNCHANGED <<now, otherVars, lapsed, vaultOwner, vaultPaused, daoAddress,
                   withdrawalLimit, requiredSignatures, spendingProposalCount,
                   authorizedSigners, spendingProposals, signerList,
                   supportedTokens, received>>

depositTokenResult(token, amount) ==
    IF vaultPaused THEN "Pausable: paused"
    ELSE IF token = ZERO THEN "Invalid token address"
    ELSE IF ~(amount > 0) THEN "Deposit amount must be greater than 0"
    ELSE "ok"

_addSupportedToken(token) ==
    IF token \in Range(supportedTokens) THEN supportedTokens
    ELSE Append(supportedTokens, token)

\* safeTransferFrom moves `amount` of the token to the Vault, or reverts.
depositToken(sender, token, amount) ==
    /\ depositTokenResult(token, amount) = "ok"
    /\ CanFund(token, amount)
    /\ custody' = [custody EXCEPT ![token] = @ + amount]
    /\ tokenBalances' = [tokenBalances EXCEPT ![token] = @ + amount]
    /\ supportedTokens' = _addSupportedToken(token)
    /\ UNCHANGED <<now, otherVars, lapsed, vaultOwner, vaultPaused, daoAddress,
                   withdrawalLimit, requiredSignatures, spendingProposalCount,
                   authorizedSigners, spendingProposals, signerList, received>>

(***************************************************************************)
(* Vault.withdraw.  transferOk is the outcome of the external transfer:    *)
(* recipient.call{value: amount}("") for ETH, safeTransfer for a token.    *)
(***************************************************************************)
\* Mutant: the outcome of the transfer is not tested.
withdrawResult_IgnoresTransfer(sender, token, amount, recipient, transferOk) ==
    IF sender # daoAddress THEN "Only DAO can call this function"
    ELSE IF vaultPaused THEN "Pausable: paused"
    ELSE IF ~(amount > 0) THEN "Withdrawal amount must be greater than 0"
    ELSE IF recipient = ZERO THEN "Invalid recipient address"
    ELSE IF ~(amount <= withdrawalLimit) THEN "Amount exceeds withdrawal limit"
    ELSE IF ~(tokenBalances[token] >= amount) THEN "Insufficient balance"
    ELSE "ok"

withdrawResult(sender, token, amount, recipient, transferOk) ==
    IF sender # daoAddress THEN "Only DAO can call this function"
    ELSE IF vaultPaused THEN "Pausable: paused"
    ELSE IF ~(amount > 0) THEN "Withdrawal amount must be greater than 0"
    ELSE IF recipient = ZERO THEN "Invalid recipient address"
    ELSE IF ~(amount <= withdrawalLimit) THEN "Amount exceeds withdrawal limit"
    ELSE IF ~(tokenBalances[token] >= amount) THEN "Insufficient balance"
    ELSE IF ~transferOk
         THEN (IF token = ZERO THEN "ETH transfer failed"
               ELSE "SafeERC20: ERC20 operation did not succeed")
    ELSE "ok"

\* Mutant: the tracked balance is not decremented.
withdrawn_NoDecrement(token, amount) == tokenBalances

\* tokenBalances after the decrement of withdraw.
withdrawn(token, amount) == [tokenBalances EXCEPT ![token] = @ - amount]

\* The events a successful call emits, in order.
depositEvents(token, depositor, amount) ==
    <<[event |-> "Deposit", token |-> token, depositor |-> depositor,
       amount |-> amount]>>

withdrawEvents(token, recipient, amount) ==
    <<[event |-> "Withdrawal", token |-> token, recipient |-> recipient,
       amount |-> amount]>>

withdraw(sender, token, amount, recipient, transferOk) ==
    /\ withdrawResult(sender, token, amount, recipient, transferOk) = "ok"
    /\ tokenBalances' = withdrawn(token, amount)
    /\ custody' = [custody EXCEPT ![token] = @ - amount]
    /\ received' = [received EXCEPT ![token] = @ + amount]
    /\ UNCHANGED <<now, otherVars, lapsed, vaultOwner, vaultPaused, daoAddress,
                   withdrawalLimit, requiredSignatures, spendingProposalCount,
                   authorizedSigners, spendingProposals, signerList,
                   supportedTokens>>

(***************************************************************************)
(* Vault.createSpendingProposal                                            *)
(***************************************************************************)
\* Mutant: an amount equal to the limit is accepted.
createSpendingProposalResult_NotStrict(sender, token, amount, recipient, description) ==
    IF ~onlyAuthorizedSigner(sender) THEN "Not an authorized signer"
    ELSE IF vaultPaused THEN "Pausable: paused"
    ELSE IF ~(amount >= withdrawalLimit) THEN "Use direct withdrawal for small amounts"
    ELSE IF recipient = ZERO THEN "Invalid recipient address"
    ELSE IF ~(tokenBalances[token] >= amount) THEN "Insufficient balance"
    ELSE IF ~(Len(description) > 0) THEN "Description cannot be empty"
    ELSE "ok"

createSpendingProposalResult(sender, token, amount, recipient, description) ==
    IF ~onlyAuthorizedSigner(sender) THEN "Not an authorized signer"
    ELSE IF vaultPaused THEN "Pausable: paused"
    ELSE IF ~(amount > withdrawalLimit) THEN "Use direct withdrawal for small amounts"
    ELSE IF recipient = ZERO THEN "Invalid recipient address"
    ELSE IF ~(tokenBalances[token] >= amount) THEN "Insufficient balance"
    ELSE IF ~(Len(description) > 0) THEN "Description cannot be empty"
    ELSE "ok"

newSpendingProposal(proposalId, token, amount, recipient, description) ==
    [id |-> proposalId, token |-> token, amount |-> amount,
     recipient |-> recipient, description |-> description, approvals |-> 0,
     deadline |-> now + PROPOSAL_DURATION, executed |-> FALSE,
     hasApproved |-> [a \in VaultAddr |-> FALSE]]

createSpendingProposal(sender, token, amount, recipient, description) ==
    /\ createSpendingProposalResult(sender, token, amount, recipient, description) = "ok"
    /\ spendingProposalCount < MaxSpending
    /\ spendingProposalCount' = spendingProposalCount + 1
    /\ spendingProposals' = Append(spendingProposals,
          newSpendingProposal(spendingProposalCount + 1, token, amount,
                              recipient, description))
    /\ UNCHANGED <<now, otherVars, lapsed, vaultOwner, vaultPaused, daoAddress,
                   withdrawalLimit, requiredSignatures, authorizedSigners,
                   tokenBalances, signerList, supportedTokens, custody, received>>

(***************************************************************************)
(* Vault._executeSpendingProposal: the proposal is marked executed and the *)
(* balance is decremented, the transfer is attempted, and both changes are *)
(* undone when `success` is false.  `props` is spendingProposals as the    *)
(* caller left it; transferOk tells whether the asset reaches the          *)
(* recipient.  ETH goes by recipient.call, whose result is `success`.  A   *)
(* token goes by try IERC20.transfer {success = true} catch {success =     *)
(* false}: the value transfer returns is not read, so a transfer that      *)
(* fails by returning false, as ERC20 allows, leaves success true.         *)
(***************************************************************************)
FailureModes(token) ==
    IF token = ZERO THEN {"reverts"} ELSE {"reverts", "returns false"}

\* Mutant: the state changes are not undone when the transfer failed.
transferSuccess_Always(transferOk, mode) == TRUE

\* The value of `success` after the transfer attempt.
transferSuccess(transferOk, mode) == transferOk \/ mode = "returns false"

_executeSpendingProposal(props, proposalId, transferOk) ==
    LET proposal == props[proposalId] IN
    \E mode \in FailureModes(proposal.token) :
        LET success == transferSuccess(transferOk, mode) IN
        /\ spendingProposals' = [props EXCEPT ![proposalId].executed = success]
        /\ tokenBalances' = [tokenBalances EXCEPT ![proposal.token] =
                                IF success THEN @ - proposal.amount
                                ELSE (@ - proposal.amount) + proposal.amount]
        /\ custody' = [custody EXCEPT ![proposal.token] =
                          IF transferOk THEN @ - proposal.amount ELSE @]
        /\ received' = [received EXCEPT ![proposal.token] =
                           IF transferOk THEN @ + proposal.amount ELSE @]

(***************************************************************************)
(* Vault.approveSpendingProposal                                           *)
(***************************************************************************)
\* Mutant: execution starts one approval late.
thresholdReached_Late(approvals) == approvals > requiredSignatures

\* The auto-execution test.
thresholdReached(approvals) == approvals >= requiredSignatures

\* Mutant: the "Already approved" requirement is missing.
approveSpendingProposalResult_NoAlreadyApproved(sender, proposalId) ==
    IF ~onlyAuthorizedSigner(sender) THEN "Not an authorized signer"
    ELSE IF vaultPaused THEN "Pausable: paused"
    ELSE IF ~validSpendingProposal(proposalId) THEN "Invalid proposal ID"
    ELSE IF ~(now < spendingProposals[proposalId].deadline) THEN "Proposal expired"
    ELSE IF spendingProposals[proposalId].executed THEN "Proposal already executed"
    ELSE IF /\ thresholdReached(spendingProposals[proposalId].approvals + 1)
            /\ tokenBalances[spendingProposals[proposalId].token]
                   < spendingProposals[proposalId].amount
         THEN "Panic: arithmetic underflow or overflow (0x11)"
    ELSE "ok"

\* Mutant: the "Proposal expired" requirement is missing.
approveSpendingProposalResult_NoExpiry(sender, proposalId) ==
    IF ~onlyAuthorizedSigner(sender) THEN "Not an authorized signer"
    ELSE IF vaultPaused THEN "Pausable: paused"
    ELSE IF ~validSpendingProposal(proposalId) THEN "Invalid proposal ID"
    ELSE IF spendingProposals[proposalId].executed THEN "Proposal already executed"
    ELSE IF spendingProposals[proposalId].hasApproved[sender] THEN "Already approved"
    ELSE IF /\ thresholdReached(spendingProposals[proposalId].approvals + 1)
            /\ tokenBalances[spendingProposals[proposalId].token]
                   < spendingProposals[proposalId].amount
         THEN "Panic: arithmetic underflow or overflow (0x11)"
    ELSE "ok"

\* Mutant: the subtraction from the tracked balance is not checked.
approveSpendingProposalResult_Unchecked(sender, proposalId) ==
    IF ~onlyAuthorizedSigner(sender) THEN "Not an authorized signer"
    ELSE IF vaultPaused THEN "Pausable: paused"
    ELSE IF ~validSpendingProposal(proposalId) THEN "Invalid proposal ID"
    ELSE IF ~(now < spendingProposals[proposalId].deadline) THEN "Proposal expired"
    ELSE IF spendingProposals[proposalId].executed THEN "Proposal already executed"
    ELSE IF spendingProposals[proposalId].hasApproved[sender] THEN "Already approved"
    ELSE "ok"

approveSpendingProposalResult(sender, proposalId) ==
    IF ~onlyAuthorizedSigner(sender) THEN "Not an authorized signer"
    ELSE IF vaultPaused THEN "Pausable: paused"
    ELSE IF ~validSpendingProposal(proposalId) THEN "Invalid proposal ID"
    ELSE IF ~(now < spendingProposals[proposalId].deadline) THEN "Proposal expired"
    ELSE IF spendingProposals[proposalId].executed THEN "Proposal already executed"
    ELSE IF spendingProposals[proposalId].hasApproved[sender] THEN "Already approved"
    ELSE IF /\ thresholdReached(spendingProposals[proposalId].approvals + 1)
            /\ tokenBalances[spendingProposals[proposalId].token]
                   < spendingProposals[proposalId].amount
         THEN "Panic: arithmetic underflow or overflow (0x11)"
    ELSE "ok"

approveSpendingProposal(sender, proposalId, transferOk) ==
    /\ approveSpendingProposalResult(sender, proposalId) = "ok"
    /\ LET approved == [spendingProposals EXCEPT
                           ![proposalId].hasApproved[sender] = TRUE,
                           ![proposalId].approvals = @ + 1]
       IN  IF thresholdReached(approved[proposalId].approvals)
           THEN _executeSpendingProposal(approved, proposalId, transferOk)
           ELSE /\ spendingProposals' = approved
                /\ UNCHANGED <<tokenBalances, custody, received>>
    /\ UNCHANGED <<now, otherVars, lapsed, vaultOwner, vaultPaused, daoAddress,
                   withdrawalLimit, requiredSignatures, spendingProposalCount,
                   authorizedSigners, signerList, supportedTokens>>

(***************************************************************************)
(* Vault.executeSpendingProposal                                           *)
(***************************************************************************)
\* Mutant: the "Proposal already executed" requirement is missing.
executeSpendingProposalResult_NoExecutedCheck(proposalId) ==
    IF vaultPaused THEN "Pausable: paused"
    ELSE IF ~validSpendingProposal(proposalId) THEN "Invalid proposal ID"
    ELSE IF ~(spendingProposals[proposalId].approvals >= requiredSignatures)
         THEN "Not enough approvals"
    ELSE IF ~(tokenBalances[spendingProposals[proposalId].token]
                  >= spendingProposals[proposalId].amount)
         THEN "Insufficient balance"
    ELSE "ok"

executeSpendingProposalResult(proposalId) ==
    IF vaultPaused THEN "Pausable: paused"
    ELSE IF ~validSpendingProposal(proposalId) THEN "Invalid proposal ID"
    ELSE IF ~(spendingProposals[proposalId].approvals >= requiredSignatures)
         THEN "Not enough approvals"
    ELSE IF spendingProposals[proposalId].executed THEN "Proposal already executed"
    ELSE IF ~(tokenBalances[spendingProposals[proposalId].token]
                  >= spendingProposals[proposalId].amount)
         THEN "Insufficient balance"
    ELSE "ok"

executeSpendingProposal(sender, proposalId, transferOk) ==
    /\ executeSpendingProposalResult(proposalId) = "ok"
    /\ _executeSpendingProposal(spendingProposals, proposalId, transferOk)
    /\ UNCHANGED <<now, otherVars, lapsed, vaultOwner, vaultPaused, daoAddress,
                   withdrawalLimit, requiredSignatures, spendingProposalCount,
                   authorizedSigners, signerList, supportedTokens>>

(***************************************************************************)
(* Vault.getSpendingProposal, a view function.                             *)
(***************************************************************************)
getSpendingProposalResult(proposalId) ==
    IF ~validSpendingProposal(proposalId) THEN "Invalid proposal ID" ELSE "ok"

getSpendingProposal(proposalId) ==
    LET proposal == spendingProposals[proposalId] IN
    <<proposal.id, proposal.token, proposal.amount, proposal.recipient,
      proposal.description, proposal.approvals, proposal.deadline,
      proposal.executed>>

(***************************************************************************)
(* Vault.addSigner, Vault.removeSigner                                     *)
(***************************************************************************)
\* Mutant: the cap on the signers is missing.
addSignerResult_NoCap(sender, signer) ==
    IF sender # vaultOwner THEN "Ownable: caller is not the owner"
    ELSE IF vaultPaused THEN "Pausable: paused"
    ELSE IF signer = ZERO THEN "Invalid signer address"
    ELSE IF authorizedSigners[signer] THEN "Already a signer"
    ELSE "ok"

addSignerResult(sender, signer) ==
    IF sender # vaultOwner THEN "Ownable: caller is not the owner"
    ELSE IF vaultPaused THEN "Pausable: paused"
    ELSE IF signer = ZERO THEN "Invalid signer address"
    ELSE IF authorizedSigners[signer] THEN "Already a signer"
    ELSE IF ~(Len(signerList) < MAX_SIGNERS) THEN "Max signers reached"
    ELSE "ok"

addSigner(sender, signer) ==
    /\ addSignerResult(sender, signer) = "ok"
    /\ authorizedSigners' = [authorizedSigners EXCEPT ![signer] = TRUE]
    /\ signerList' = Append(signerList, signer)
    /\ UNCHANGED <<now, otherVars, lapsed, vaultOwner, vaultPaused, daoAddress,
                   withdrawalLimit, requiredSignatures, spendingProposalCount,
                   spendingProposals, tokenBalances, supportedTokens, custody,
                   received>>

\* Mutant: the threshold comparison is not strict.
removeSignerResult_NotStrict(sender, signer) ==
    IF sender # vaultOwner THEN "Ownable: caller is not the owner"
    ELSE IF vaultPaused THEN "Pausable: paused"
    ELSE IF signer = ZERO THEN "Invalid signer address"
    ELSE IF ~authorizedSigners[signer] THEN "Not a signer"
    ELSE IF ~(Len(signerList) >= requiredSignatures)
         THEN "Cannot remove signer below required threshold"
    ELSE "ok"

removeSignerResult(sender, signer) ==
    IF sender # vaultOwner THEN "Ownable: caller is not the owner"
    ELSE IF vaultPaused THEN "Pausable: paused"
    ELSE IF signer = ZERO THEN "Invalid signer address"
    ELSE IF ~authorizedSigners[signer] THEN "Not a signer"
    ELSE IF ~(Len(signerList) > requiredSignatures)
         THEN "Cannot remove signer below required threshold"
    ELSE "ok"

removeSigner(sender, signer) ==
    /\ removeSignerResult(sender, signer) = "ok"
    /\ authorizedSigners' = [authorizedSigners EXCEPT ![signer] = FALSE]
    /\ signerList' = SwapRemove(signerList, signer)
    /\ UNCHANGED <<now, otherVars, lapsed, vaultOwner, vaultPaused, daoAddress,
                   withdrawalLimit, requiredSignatures, spendingProposalCount,
                   spendingProposals, tokenBalances, supportedTokens, custody,
                   received>>

(***************************************************************************)
(* Vault.updateWithdrawalLimit, Vault.updateRequiredSignatures             *)
(***************************************************************************)
updateWithdrawalLimitResult(sender, newLimit) ==
    IF sender # vaultOwner THEN "Ownable: caller is not the owner" ELSE "ok"

updateWithdrawalLimit(sender, newLimit) ==
    /\ updateWithdrawalLimitResult(sender, newLimit) = "ok"
    /\ withdrawalLimit' = newLimit
    /\ UNCHANGED <<now, otherVars, lapsed, vaultOwner, vaultPaused, daoAddress,
                   requiredSignatures, spendingProposalCount, authorizedSigners,
                   spendingProposals, tokenBalances, signerList, supportedTokens,
                   custody, received>>

updateRequiredSignaturesResult(sender, newRequiredSignatures) ==
    IF sender # vaultOwner THEN "Ownable: caller is not the owner"
    ELSE IF ~(newRequiredSignatures >= MIN_SIGNATURES) THEN "Invalid signature requirement"
    ELSE IF ~(newRequiredSignatures <= Len(signerList))
         THEN "Required signatures exceed signer count"
    ELSE "ok"

updateRequiredSignatures(sender, newRequiredSignatures) ==
    /\ updateRequiredSignaturesResult(sender, newRequiredSignatures) = "ok"
    /\ requiredSignatures' = newRequiredSignatures
    /\ UNCHANGED <<now, otherVars, lapsed, vaultOwner, vaultPaused, daoAddress,
                   withdrawalLimit, spendingProposalCount, authorizedSigners,
                   spendingProposals, tokenBalances, signerList, supportedTokens,
                   custody, received>>

(***************************************************************************)
(* Vault.emergencyPause, Vault.unpause, and Ownable.transferOwnership as   *)
(* VaultFactory calls it on a Vault.                                       *)
(***************************************************************************)
emergencyPauseResult(sender) ==
    IF ~onlyAuthorizedSigner(sender) THEN "Not an authorized signer"
    ELSE IF vaultPaused THEN "Pausable: paused"
    ELSE "ok"

emergencyPause(sender) ==
    /\ emergencyPauseResult(sender) = "ok"
    /\ vaultPaused' = TRUE
    /\ UNCHANGED <<now, otherVars, lapsed, vaultOwner, daoAddress, withdrawalLimit,
                   requiredSignatures, spendingProposalCount, authorizedSigners,
                   spendingProposals, tokenBalances, signerList, supportedTokens,
                   custody, received>>

Vault_unpauseResult(sender) ==
    IF sender # vaultOwner THEN "Ownable: caller is not the owner"
    ELSE IF ~vaultPaused THEN "Pausable: not paused"
    ELSE "ok"

Vault_unpause(sender) ==
    /\ Vault_unpauseResult(sender) = "ok"
    /\ vaultPaused' = FALSE
    /\ UNCHANGED <<now, otherVars, lapsed, vaultOwner, daoAddress, withdrawalLimit,
                   requiredSignatures, spendingProposalCount, authorizedSigners,
                   spendingProposals, tokenBalances, signerList, supportedTokens,
                   custody, received>>

Vault_transferOwnershipResult(sender, newOwner) ==
    IF sender # vaultOwner THEN "Ownable: caller is not the owner"
    ELSE IF newOwner = ZERO THEN "Ownable: new owner is the zero address"
    ELSE "ok"

Vault_transferOwnership(sender, newOwner) ==
    /\ Vault_transferOwnershipResult(sender, newOwner) = "ok"
    /\ vaultOwner' = newOwner
    /\ UNCHANGED <<now, otherVars, lapsed, vaultPaused, daoAddress, withdrawalLimit,
                   requiredSignatures, spendingProposalCount, authorizedSigners,
                   spendingProposals, tokenBalances, signerList, supportedTokens,
                   custody, received>>

\* The clock advances.  The spending proposals whose deadline is reached in
\* this step without the approvals their execution requires are recorded.
Lapsing(later) ==
    {p \in 1..spendingProposalCount :
        /\ now < spendingProposals[p].deadline
        /\ later >= spendingProposals[p].deadline
        /\ ~spendingProposals[p].executed
        /\ spendingProposals[p].approvals < requiredSignatures}

VaultTick ==
    /\ now < MaxVaultTicks * VaultTickLen
    /\ now' = now + VaultTickLen
    /\ lapsed' = lapsed \cup Lapsing(now + VaultTickLen)
    /\ UNCHANGED <<otherVars, vaultOwner, vaultPaused, daoAddress,
                   withdrawalLimit, requiredSignatures, spendingProposalCount,
                   authorizedSigners, spendingProposals, tokenBalances,
                   signerList, supportedTokens, custody, received>>

(***************************************************************************)
(* DAOFactory (src/unnamed/part_002, lines 449-625).  The n-th DAO the     *)
(* factory deploys has the address DaoBase + n: the address of a new       *)
(* contract is fixed by the nonce of the account that deploys it.          *)
(***************************************************************************)
MAX_DAOS_PER_USER == 10
MAX_NAME_LENGTH == 100

DaoBase == VAULT
DaoAddrs == (DaoBase + 1)..(DaoBase + MaxDAOs)
FirstDAO == DaoBase + 1
SecondDAO == DaoBase + 2

\* The account that deployed the factory, and the accounts that create DAOs.
FactoryDeployer == NumAddr
DaoCreators == {Creator, DaoCaller}

\* Inputs of the calls, valid and invalid.
LongName == "A name of one hundred and one characters, which is one more than the longest name createDAO takes...."
Names == {"", "T", LongName}
DaoInputs == {ZERO, FirstDAO, SecondDAO}
\* registerVault takes any non-zero address as a vault: OtherVault is a
\* second one, apart from the accounts and the deployed contracts.
OtherVault == DaoBase + MaxDAOs + 1
VaultInputs == {ZERO, VAULT, OtherVault}

\* The DAOs deployed so far.
Deployed == {DaoBase + n : n \in 1..factoryNonce}

\* The members of an address without a DAO, and of a DAO as its constructor
\* leaves it: the owner is the first and only member.
NoDAO == [members |-> {}, memberList |-> <<>>, memberCount |-> 0]

\* Mutant: the constructor does not add the owner as a member.
DAO_new_NoMember(_name, _owner) == NoDAO

DAO_new(_name, _owner) ==
    [members |-> {_owner}, memberList |-> <<_owner>>, memberCount |-> 1]

DAOFactory_constructor(deployer) ==
    /\ factoryOwner = deployer
    /\ factoryPaused = FALSE
    /\ userDAOs = [a \in Addr |-> <<>>]
    /\ daoToVault = [d \in DaoInputs |-> ZERO]
    /\ vaultToDAO = [v \in VaultInputs |-> ZERO]
    /\ allDAOs = <<>>
    /\ daoCount = 0
    /\ daoOwners = [d \in DaoAddrs |-> ZERO]
    /\ daoMembers = [d \in DaoAddrs |-> NoDAO]
    /\ factoryNonce = 0

(***************************************************************************)
(* DAOFactory.createDAO                                                    *)
(***************************************************************************)
\* Mutant: the cap on the DAOs of one user is missing.
createDAOResult_NoCap(sender, name) ==
    IF factoryPaused THEN "Pausable: paused"
    ELSE IF ~(Len(name) > 0) THEN "DAO name cannot be empty"
    ELSE IF ~(Len(name) <= MAX_NAME_LENGTH) THEN "DAO name too long"
    ELSE "ok"

createDAOResult(sender, name) ==
    IF factoryPaused THEN "Pausable: paused"
    ELSE IF ~(Len(name) > 0) THEN "DAO name cannot be empty"
    ELSE IF ~(Len(name) <= MAX_NAME_LENGTH) THEN "DAO name too long"
    ELSE IF ~(Len(userDAOs[sender]) < MAX_DAOS_PER_USER) THEN "Max DAOs per user exceeded"
    ELSE "ok"

\* new DAO(name, msg.sender) makes msg.sender the owner of the new DAO.
createDAO(sender, name) ==
    /\ createDAOResult(sender, name) = "ok"
    /\ factoryNonce < MaxDAOs
    /\ factoryNonce' = factoryNonce + 1
    /\ LET newDAO == DaoBase + factoryNonce + 1 IN
          /\ daoOwners' = [daoOwners EXCEPT ![newDAO] = sender]
          /\ daoMembers' = [daoMembers EXCEPT ![newDAO] = DAO_new(name, sender)]
          /\ userDAOs' = [userDAOs EXCEPT ![sender] = Append(@, newDAO)]
          /\ allDAOs' = Append(allDAOs, newDAO)
    /\ daoCount' = daoCount + 1
    /\ UNCHANGED <<now, daoVars, votesCast, vaultVars, vaultFactoryVars, factoryOwner,
                   factoryPaused, daoToVault, vaultToDAO>>

(***************************************************************************)
(* DAOFactory.registerVault, DAOFactory.unregisterVault.  The call         *)
(* DAO(daoAddress).owner() reverts without a reason when no contract is    *)
(* deployed at daoAddress.                                                 *)
(***************************************************************************)
\* Mutant: the owner of the DAO is not asked for.
registerVaultResult_AnyCaller(sender, dao, vaultAddress) ==
    IF factoryPaused THEN "Pausable: paused"
    ELSE IF dao = ZERO THEN "Invalid DAO address"
    ELSE IF vaultAddress = ZERO THEN "Invalid vault address"
    ELSE IF daoToVault[dao] # ZERO THEN "DAO already has a vault"
    ELSE IF vaultToDAO[vaultAddress] # ZERO THEN "Vault already registered"
    ELSE "ok"

registerVaultResult(sender, dao, vaultAddress) ==
    IF factoryPaused THEN "Pausable: paused"
    ELSE IF dao = ZERO THEN "Invalid DAO address"
    ELSE IF vaultAddress = ZERO THEN "Invalid vault address"
    ELSE IF daoToVault[dao] # ZERO THEN "DAO already has a vault"
    ELSE IF vaultToDAO[vaultAddress] # ZERO THEN "Vault already registered"
    ELSE IF dao \notin Deployed THEN "revert without reason"
    ELSE IF daoOwners[dao] # sender THEN "Only DAO owner can register vault"
    ELSE "ok"

\* Mutant: registering a vault for the first DAO also attaches it there.
registerVault_Attaches(sender, dao, vaultAddress) ==
    /\ registerVaultResult(sender, dao, vaultAddress) = "ok"
    /\ daoToVault' = [daoToVault EXCEPT ![dao] = vaultAddress]
    /\ vaultToDAO' = [vaultToDAO EXCEPT ![vaultAddress] = dao]
    /\ attachedVault' = IF dao = FirstDAO THEN vaultAddress ELSE attachedVault
    /\ UNCHANGED <<now, owner, paused, members, memberList, memberCount,
                   proposals, proposalCount, quorumPercentage, votesCast,
                   vaultVars, vaultFactoryVars, factoryOwner,
                   factoryPaused, userDAOs, allDAOs, daoCount, daoOwners, daoMembers,
                   factoryNonce>>

registerVault(sender, dao, vaultAddress) ==
    /\ registerVaultResult(sender, dao, vaultAddress) = "ok"
    /\ daoToVault' = [daoToVault EXCEPT ![dao] = vaultAddress]
    /\ vaultToDAO' = [vaultToDAO EXCEPT ![vaultAddress] = dao]
    /\ UNCHANGED <<now, daoVars, votesCast, vaultVars, vaultFactoryVars, factoryOwner,
                   factoryPaused, userDAOs, allDAOs, daoCount, daoOwners, daoMembers,
                   factoryNonce>>

unregisterVaultResult(sender, dao) ==
    IF factoryPaused THEN "Pausable: paused"
    ELSE IF dao = ZERO THEN "Invalid DAO address"
    ELSE IF daoToVault[dao] = ZERO THEN "No vault registered for this DAO"
    ELSE IF dao \notin Deployed THEN "revert without reason"
    ELSE IF daoOwners[dao] # sender THEN "Only DAO owner can unregister vault"
    ELSE "ok"

\* Mutant: the entry of the vault in vaultToDAO is not deleted.
unregisterVault_KeepsReverse(sender, dao) ==
    /\ unregisterVaultResult(sender, dao) = "ok"
    /\ daoToVault' = [daoToVault EXCEPT ![dao] = ZERO]
    /\ UNCHANGED <<now, daoVars, votesCast, vaultVars, vaultFactoryVars, factoryOwner,
                   factoryPaused, userDAOs, vaultToDAO, allDAOs, daoCount,
                   daoOwners, daoMembers,
                   factoryNonce>>

unregisterVault(sender, dao) ==
    /\ unregisterVaultResult(sender, dao) = "ok"
    /\ daoToVault' = [daoToVault EXCEPT ![dao] = ZERO]
    /\ vaultToDAO' = [vaultToDAO EXCEPT ![daoToVault[dao]] = ZERO]
    /\ UNCHANGED <<now, daoVars, votesCast, vaultVars, vaultFactoryVars, factoryOwner,
                   factoryPaused, userDAOs, allDAOs, daoCount, daoOwners, daoMembers,
                   factoryNonce>>

\* The read operations.
getDAOVault(dao) == daoToVault[dao]
getVaultDAO(vaultAddress) == vaultToDAO[vaultAddress]

(***************************************************************************)
(* DAOFactory.pause, DAOFactory.unpause, and Ownable.transferOwnership of  *)
(* a DAO the factory deployed.                                             *)
(***************************************************************************)
\* Mutant: pause is open to every caller.
DAOFactory_pauseResult_AnyCaller(sender) ==
    IF factoryPaused THEN "Pausable: paused" ELSE "ok"

DAOFactory_pauseResult(sender) ==
    IF sender # factoryOwner THEN "Ownable: caller is not the owner"
    ELSE IF factoryPaused THEN "Pausable: paused"
    ELSE "ok"

DAOFactory_pause(sender) ==
    /\ DAOFactory_pauseResult(sender) = "ok"
    /\ factoryPaused' = TRUE
    /\ UNCHANGED <<now, daoVars, votesCast, vaultVars, vaultFactoryVars, factoryOwner, userDAOs,
                   daoToVault, vaultToDAO, allDAOs, daoCount, daoOwners, daoMembers,
                   factoryNonce>>

DAOFactory_unpauseResult(sender) ==
    IF sender # factoryOwner THEN "Ownable: caller is not the owner"
    ELSE IF ~factoryPaused THEN "Pausable: not paused"
    ELSE "ok"

DAOFactory_unpause(sender) ==
    /\ DAOFactory_unpauseResult(sender) = "ok"
    /\ factoryPaused' = FALSE
    /\ UNCHANGED <<now, daoVars, votesCast, vaultVars, vaultFactoryVars, factoryOwner, userDAOs,
                   daoToVault, vaultToDAO, allDAOs, daoCount, daoOwners, daoMembers,
                   factoryNonce>>

\* Ownable.transferOwnership of the factory itself.
DAOFactory_transferOwnershipResult(sender, newOwner) ==
    IF sender # factoryOwner THEN "Ownable: caller is not the owner"
    ELSE IF newOwner = ZERO THEN "Ownable: new owner is the zero address"
    ELSE "ok"

DAOFactory_transferOwnership(sender, newOwner) ==
    /\ DAOFactory_transferOwnershipResult(sender, newOwner) = "ok"
    /\ factoryOwner' = newOwner
    /\ UNCHANGED <<now, daoVars, votesCast, vaultVars, vaultFactoryVars, factoryPaused, userDAOs,
                   daoToVault, vaultToDAO, allDAOs, daoCount, daoOwners, daoMembers,
                   factoryNonce>>

deployedDAO_transferOwnershipResult(sender, dao, newOwner) ==
    IF dao \notin Deployed THEN "revert without reason"
    ELSE IF sender # daoOwners[dao] THEN "Ownable: caller is not the owner"
    ELSE IF newOwner = ZERO THEN "Ownable: new owner is the zero address"
    ELSE "ok"

deployedDAO_transferOwnership(sender, dao, newOwner) ==
    /\ deployedDAO_transferOwnershipResult(sender, dao, newOwner) = "ok"
    /\ daoOwners' = [daoOwners EXCEPT ![dao] = newOwner]
    /\ UNCHANGED <<now, daoVars, votesCast, vaultVars, vaultFactoryVars, factoryOwner,
                   factoryPaused, userDAOs, daoToVault, vaultToDAO, allDAOs,
                   daoCount, daoMembers, factoryNonce>>

(***************************************************************************)
(* DAOFactory.emergencyRemoveDAO.  daoCount-- is a checked subtraction.    *)
(***************************************************************************)
\* Mutant: emergencyRemoveDAO is open to every caller.
emergencyRemoveDAOResult_AnyCaller(sender, dao) ==
    IF dao = ZERO THEN "Invalid DAO address"
    ELSE IF daoCount = 0 THEN "Panic: arithmetic underflow or overflow (0x11)"
    ELSE "ok"

emergencyRemoveDAOResult(sender, dao) ==
    IF sender # factoryOwner THEN "Ownable: caller is not the owner"
    ELSE IF dao = ZERO THEN "Invalid DAO address"
    ELSE IF daoCount = 0 THEN "Panic: arithmetic underflow or overflow (0x11)"
    ELSE "ok"

emergencyRemoveDAO(sender, dao) ==
    /\ emergencyRemoveDAOResult(sender, dao) = "ok"
    /\ allDAOs' = SwapRemove(allDAOs, dao)
    /\ IF daoToVault[dao] # ZERO
       THEN /\ daoToVault' = [daoToVault EXCEPT ![dao] = ZERO]
            /\ vaultToDAO' = [vaultToDAO EXCEPT ![daoToVault[dao]] = ZERO]
       ELSE UNCHANGED <<daoToVault, vaultToDAO>>
    /\ daoCount' = daoCount - 1
    /\ UNCHANGED <<now, daoVars, votesCast, vaultVars, vaultFactoryVars, factoryOwner,
                   factoryPaused, userDAOs, daoOwners, daoMembers,
                   factoryNonce>>

(***************************************************************************)
(* VaultFactory (src/unnamed/part_001, lines 1-337).  The n-th Vault the   *)
(* factory deploys has the address VaultBase + n.  Amounts are counted in  *)
(* units of 0.01 ether.                                                    *)
(***************************************************************************)
MAX_VAULTS_PER_DAO == 5
MIN_WITHDRAWAL_LIMIT == 1
MAX_WITHDRAWAL_LIMIT == 100000
MIN_REQUIRED_SIGNATURES == 1
MAX_REQUIRED_SIGNATURES == 20

VaultBase == OtherVault
CreatedVaultAddrs == (VaultBase + 1)..(VaultBase + MaxVaults)
FirstVault == VaultBase + 1

\* Inputs of the calls, valid and invalid.
VaultDaoInputs == {ZERO, FirstDAO, SecondDAO}
LimitInputs == {MIN_WITHDRAWAL_LIMIT - 1, MIN_WITHDRAWAL_LIMIT,
                MAX_WITHDRAWAL_LIMIT, MAX_WITHDRAWAL_LIMIT + 1}
LowLimitInputs == {MIN_WITHDRAWAL_LIMIT - 1, MIN_WITHDRAWAL_LIMIT}
SignatureCountInputs == {MIN_REQUIRED_SIGNATURES - 1, MIN_REQUIRED_SIGNATURES,
                         MAX_REQUIRED_SIGNATURES + 1}
CreatedVaultInputs == {ZERO} \cup CreatedVaultAddrs

\* The Vaults deployed so far.
DeployedVaults == {VaultBase + n : n \in 1..vaultNonce}

\* An address without a Vault, and a Vault as its constructor and the
\* transfer of its ownership to the caller of the factory leave it.
NoVault ==
    [owner |-> ZERO, daoAddress |-> ZERO, withdrawalLimit |-> 0,
     requiredSignatures |-> 0, signerList |-> <<>>]

Vault_new(deployer, creator, _daoAddress, _withdrawalLimit, _requiredSignatures) ==
    [owner |-> creator, daoAddress |-> _daoAddress,
     withdrawalLimit |-> _withdrawalLimit,
     requiredSignatures |-> _requiredSignatures, signerList |-> <<deployer>>]

WithinLimitBounds(limit) ==
    limit >= MIN_WITHDRAWAL_LIMIT /\ limit <= MAX_WITHDRAWAL_LIMIT

WithinSignatureBounds(n) ==
    n >= MIN_REQUIRED_SIGNATURES /\ n <= MAX_REQUIRED_SIGNATURES

VaultFactory_constructorResult(_defaultWithdrawalLimit, _defaultRequiredSignatures) ==
    IF ~WithinLimitBounds(_defaultWithdrawalLimit) THEN "Invalid default withdrawal limit"
    ELSE IF ~WithinSignatureBounds(_defaultRequiredSignatures)
         THEN "Invalid default required signatures"
    ELSE "ok"

VaultFactory_constructor(deployer, _defaultWithdrawalLimit, _defaultRequiredSignatures) ==
    /\ VaultFactory_constructorResult(_defaultWithdrawalLimit,
                                      _defaultRequiredSignatures) = "ok"
    /\ vaultFactoryOwner = deployer
    /\ daoVaults = [d \in VaultDaoInputs |-> <<>>]
    /\ factoryVaultToDAO = [v \in CreatedVaultInputs |-> ZERO]
    /\ allVaults = <<>>
    /\ vaultCount = 0
    /\ defaultWithdrawalLimit = _defaultWithdrawalLimit
    /\ defaultRequiredSignatures = _defaultRequiredSignatures
    /\ createdVaults = [v \in CreatedVaultAddrs |-> NoVault]
    /\ vaultNonce = 0

(***************************************************************************)
(* VaultFactory._createVault and the three functions that call it.         *)
(***************************************************************************)
\* Mutant: the cap on the vaults of one DAO is missing.
_createVaultResult_NoCap(dao, limit, signatures) ==
    IF dao = ZERO THEN "Invalid DAO address"
    ELSE IF ~WithinLimitBounds(limit) THEN "Invalid withdrawal limit"
    ELSE IF ~WithinSignatureBounds(signatures) THEN "Invalid required signatures"
    ELSE Vault_constructorResult(dao, signatures)

_createVaultResult(dao, limit, signatures) ==
    IF dao = ZERO THEN "Invalid DAO address"
    ELSE IF ~WithinLimitBounds(limit) THEN "Invalid withdrawal limit"
    ELSE IF ~WithinSignatureBounds(signatures) THEN "Invalid required signatures"
    ELSE IF ~(Len(daoVaults[dao]) < MAX_VAULTS_PER_DAO) THEN "Max vaults per DAO exceeded"
    ELSE Vault_constructorResult(dao, signatures)

_createVault(sender, dao, limit, signatures) ==
    /\ _createVaultResult(dao, limit, signatures) = "ok"
    /\ vaultNonce < MaxVaults
    /\ vaultNonce' = vaultNonce + 1
    /\ LET newVault == VaultBase + vaultNonce + 1 IN
          /\ createdVaults' = [createdVaults EXCEPT ![newVault] =
                                  Vault_new(FACTORY, sender, dao, limit, signatures)]
          /\ daoVaults' = [daoVaults EXCEPT ![dao] = Append(@, newVault)]
          /\ factoryVaultToDAO' = [factoryVaultToDAO EXCEPT ![newVault] = dao]
          /\ allVaults' = Append(allVaults, newVault)
    /\ vaultCount' = vaultCount + 1
    /\ UNCHANGED <<now, daoVars, votesCast, vaultVars, factoryVars,
                   vaultFactoryOwner, defaultWithdrawalLimit,
                   defaultRequiredSignatures>>

createVaultResult(sender, dao, limit) ==
    _createVaultResult(dao, limit, defaultRequiredSignatures)

createVault(sender, dao, limit) ==
    _createVault(sender, dao, limit, defaultRequiredSignatures)

createVaultWithCustomParamsResult(sender, dao, limit, signatures) ==
    _createVaultResult(dao, limit, signatures)

createVaultWithCustomParams(sender, dao, limit, signatures) ==
    _createVault(sender, dao, limit, signatures)

createDefaultVaultResult(sender, dao) ==
    _createVaultResult(dao, defaultWithdrawalLimit, defaultRequiredSignatures)

createDefaultVault(sender, dao) ==
    _createVault(sender, dao, defaultWithdrawalLimit, defaultRequiredSignatures)

\* The read operation.
getDAOVaultCount(dao) == Len(daoVaults[dao])

(***************************************************************************)
(* VaultFactory.updateDefaultWithdrawalLimit,                              *)
(* VaultFactory.updateDefaultRequiredSignatures,                           *)
(* VaultFactory.updateDefaultParameters                                    *)
(***************************************************************************)
updateDefaultWithdrawalLimitResult(sender, newWithdrawalLimit) ==
    IF sender # vaultFactoryOwner THEN "Ownable: caller is not the owner"
    ELSE IF ~WithinLimitBounds(newWithdrawalLimit) THEN "Invalid withdrawal limit"
    ELSE "ok"

updateDefaultWithdrawalLimit(sender, newWithdrawalLimit) ==
    /\ updateDefaultWithdrawalLimitResult(sender, newWithdrawalLimit) = "ok"
    /\ defaultWithdrawalLimit' = newWithdrawalLimit
    /\ UNCHANGED <<now, daoVars, votesCast, vaultVars, factoryVars,
                   vaultFactoryOwner, daoVaults, factoryVaultToDAO, allVaults,
                   vaultCount, defaultRequiredSignatures, createdVaults, vaultNonce>>

updateDefaultRequiredSignaturesResult(sender, newRequiredSignatures) ==
    IF sender # vaultFactoryOwner THEN "Ownable: caller is not the owner"
    ELSE IF ~WithinSignatureBounds(newRequiredSignatures) THEN "Invalid required signatures"
    ELSE "ok"

updateDefaultRequiredSignatures(sender, newRequiredSignatures) ==
    /\ updateDefaultRequiredSignaturesResult(sender, newRequiredSignatures) = "ok"
    /\ defaultRequiredSignatures' = newRequiredSignatures
    /\ UNCHANGED <<now, daoVars, votesCast, vaultVars, factoryVars,
                   vaultFactoryOwner, daoVaults, factoryVaultToDAO, allVaults,
                   vaultCount, defaultWithdrawalLimit, createdVaults, vaultNonce>>

updateDefaultParametersResult(sender, newWithdrawalLimit, newRequiredSignatures) ==
    IF sender # vaultFactoryOwner THEN "Ownable: caller is not the owner"
    ELSE IF ~WithinLimitBounds(newWithdrawalLimit) THEN "Invalid withdrawal limit"
    ELSE IF ~WithinSignatureBounds(newRequiredSignatures) THEN "Invalid required signatures"
    ELSE "ok"

updateDefaultParameters(sender, newWithdrawalLimit, newRequiredSignatures) ==
    /\ updateDefaultParametersResult(sender, newWithdrawalLimit,
                                     newRequiredSignatures) = "ok"
    /\ defaultWithdrawalLimit' = newWithdrawalLimit
    /\ defaultRequiredSignatures' = newRequiredSignatures
    /\ UNCHANGED <<now, daoVars, votesCast, vaultVars, factoryVars,
                   vaultFactoryOwner, daoVaults, factoryVaultToDAO, allVaults,
                   vaultCount, createdVaults, vaultNonce>>

(***************************************************************************)
(* VaultFactory.emergencyRemoveVault                                       *)
(***************************************************************************)
emergencyRemoveVaultResult(sender, vaultAddress) ==
    IF sender # vaultFactoryOwner THEN "Ownable: caller is not the owner"
    ELSE IF vaultAddress = ZERO THEN "Invalid vault address"
    ELSE IF factoryVaultToDAO[vaultAddress] = ZERO THEN "Vault not found"
    ELSE IF vaultCount = 0 THEN "Panic: arithmetic underflow or overflow (0x11)"
    ELSE "ok"

emergencyRemoveVault(sender, vaultAddress) ==
    /\ emergencyRemoveVaultResult(sender, vaultAddress) = "ok"
    /\ LET dao == factoryVaultToDAO[vaultAddress] IN
          daoVaults' = [daoVaults EXCEPT ![dao] = SwapRemove(@, vaultAddress)]
    /\ allVaults' = SwapRemove(allVaults, vaultAddress)
    /\ factoryVaultToDAO' = [factoryVaultToDAO EXCEPT ![vaultAddress] = ZERO]
    /\ vaultCount' = vaultCount - 1
    /\ UNCHANGED <<now, daoVars, votesCast, vaultVars, factoryVars,
                   vaultFactoryOwner, defaultWithdrawalLimit,
                   defaultRequiredSignatures, createdVaults, vaultNonce>>

(***************************************************************************)
(* VaultFactory.getFactoryStats.  The loop runs over allVaults and counts  *)
(* the entries whose DAO is non-zero and has a vault.                      *)
(***************************************************************************)
getFactoryStats ==
    LET counted == {i \in 1..Len(allVaults) :
                       LET daoAddr == factoryVaultToDAO[allVaults[i]] IN
                          daoAddr # ZERO /\ Len(daoVaults[daoAddr]) > 0}
        count == Cardinality(counted)
    IN  [totalVaults |-> vaultCount,
         totalDAOsWithVaults |-> count,
         averageVaultsPerDAO |-> IF count > 0 THEN vaultCount \div count ELSE 0]

\* Vault.getSigners and Ownable.owner of a Vault the factory deployed.  The
\* constructor sets the flag of an address in authorizedSigners as it
\* appends the address to signerList.
createdVault_getSigners(vaultAddress) == createdVaults[vaultAddress].signerList
createdVault_authorizedSigners(vaultAddress, a) ==
    a \in Range(createdVaults[vaultAddress].signerList)
createdVault_owner(vaultAddress) == createdVaults[vaultAddress].owner

(***************************************************************************)
(* Vault.updateWithdrawalLimit of a Vault the factory deployed.            *)
(***************************************************************************)
createdVault_updateWithdrawalLimitResult(sender, vaultAddress, newLimit) ==
    IF vaultAddress \notin DeployedVaults THEN "revert without reason"
    ELSE IF sender # createdVaults[vaultAddress].owner
         THEN "Ownable: caller is not the owner"
    ELSE "ok"

createdVault_updateWithdrawalLimit(sender, vaultAddress, newLimit) ==
    /\ createdVault_updateWithdrawalLimitResult(sender, vaultAddress, newLimit) = "ok"
    /\ createdVaults' = [createdVaults EXCEPT ![vaultAddress].withdrawalLimit = newLimit]
    /\ UNCHANGED <<now, daoVars, votesCast, vaultVars, factoryVars,
                   vaultFactoryOwner, daoVaults, factoryVaultToDAO, allVaults,
                   vaultCount, defaultWithdrawalLimit, defaultRequiredSignatures,
                   vaultNonce>>

(***************************************************************************)
(* The DAO specification: one DAO, created by account 1.                   *)
(***************************************************************************)
\* The Vault of the DAO specification is idle: it stays as constructed.
NoFunds ==
    /\ custody = [t \in Assets |-> 0]
    /\ received = [t \in Assets |-> 0]
    /\ lapsed = {}

DAOInit ==
    /\ now = 0
    /\ DAO_constructor(Creator)
    /\ votesCast = [k \in (1..MaxSequence) \X Addr |-> 0]
    /\ Vault_constructor(Creator, Creator, DaoCaller, 1, MIN_SIGNATURES)
    /\ NoFunds
    /\ DAOFactory_constructor(FactoryDeployer)
    /\ VaultFactory_constructor(FactoryDeployer, MIN_WITHDRAWAL_LIMIT,
                                MIN_REQUIRED_SIGNATURES)

DAONext ==
    \/ \E s \in Users, m \in Addr : addMember(s, m)
    \/ \E s \in Users, m \in Addr : removeMember(s, m)
    \/ \E s \in Users, t \in Texts, d \in Texts, dur \in Durations :
          proposalCount < MaxProposals /\ propose(s, t, d, dur)
    \/ \E s \in Users, p \in ProposalIds, b \in BOOLEAN : vote(s, p, b)
    \/ \E s \in Users, p \in ProposalIds : executeProposal(s, p)
    \/ \E s \in Users, q \in QuorumInputs : setQuorumPercentage(s, q)
    \/ \E s \in Users, v \in {ZERO, VAULT} : attachVault(s, v)
    \/ \E s \in Users : detachVault(s)
    \/ \E s \in Users : DAO_pause(s)
    \/ \E s \in Users : DAO_unpause(s)
    \/ \E s \in Users, n \in Addr : DAO_transferOwnership(s, n)
    \/ \E s \in Users : DAO_renounceOwnership(s)
    \/ Tick

DAOSpec == DAOInit /\ [][DAONext]_vars

(***************************************************************************)
(* The Vault specification: one Vault for DaoCaller, created by account 1  *)
(* either directly or through VaultFactory; its DAO is idle.               *)
(***************************************************************************)
InitSignatures == 0..MaxInitSignatures

VaultInit ==
    /\ now = 0
    /\ DAO_constructor(Creator)
    /\ votesCast = [k \in (1..MaxSequence) \X Addr |-> 0]
    /\ \E deployer \in {Creator, FACTORY}, limit \in Limits, n \in InitSignatures :
           Vault_constructor(deployer, Creator, DaoCaller, limit, n)
    /\ NoFunds
    /\ DAOFactory_constructor(FactoryDeployer)
    /\ VaultFactory_constructor(FactoryDeployer, MIN_WITHDRAWAL_LIMIT,
                                MIN_REQUIRED_SIGNATURES)

VaultNext ==
    \/ \E s \in Users, v \in Amounts : depositETH(s, v)
    \/ \E s \in Users, v \in Amounts : receive(s, v)
    \/ \E s \in Users, v \in Amounts : depositToken(s, TOKEN, v)
    \/ \E s \in Users, t \in Assets, v \in Amounts, r \in RecipientInputs,
          ok \in BOOLEAN : withdraw(s, t, v, r, ok)
    \/ \E s \in Users, t \in Assets, v \in Amounts, r \in RecipientInputs,
          d \in Texts : createSpendingProposal(s, t, v, r, d)
    \/ \E s \in Users, p \in SpendingIds, ok \in BOOLEAN :
          approveSpendingProposal(s, p, ok)
    \/ \E s \in Users, p \in SpendingIds, ok \in BOOLEAN :
          executeSpendingProposal(s, p, ok)
    \/ \E s \in Users, a \in SignerInputs : addSigner(s, a)
    \/ \E s \in Users, a \in VaultAddr : removeSigner(s, a)
    \/ \E s \in Users, l \in Limits : updateWithdrawalLimit(s, l)
    \/ \E s \in Users, n \in SignatureInputs : updateRequiredSignatures(s, n)
    \/ \E s \in Users : emergencyPause(s)
    \/ \E s \in Users : Vault_unpause(s)
    \/ VaultTick

VaultSpec == VaultInit /\ [][VaultNext]_vars

(***************************************************************************)
(* The signer specification: the same Vault under the operations that read *)
(* or write its signers, its signature requirement, its owner or its pause *)
(* flag, with every account as a possible signer.                          *)
(***************************************************************************)
SignerNext ==
    \/ \E s \in Users, a \in Addr : addSigner(s, a)
    \/ \E s \in Users, a \in VaultAddr : removeSigner(s, a)
    \/ \E s \in Users, n \in SignatureInputs : updateRequiredSignatures(s, n)
    \/ \E s \in Users : emergencyPause(s)
    \/ \E s \in Users : Vault_unpause(s)
    \/ \E s \in Users, n \in Addr : Vault_transferOwnership(s, n)

SignerSpec == VaultInit /\ [][SignerNext]_vars

(***************************************************************************)
(* The factory specification: DAOFactory creating DAOs up to the cap of    *)
(* one user, with an idle DAO and Vault.                                   *)
(***************************************************************************)
FactoryNext ==
    \/ \E s \in DaoCreators, n \in Names : createDAO(s, n)
    \/ \E s \in Users : DAOFactory_pause(s)
    \/ \E s \in Users : DAOFactory_unpause(s)

FactorySpec == DAOInit /\ [][FactoryNext]_vars

(***************************************************************************)
(* The registry specification: DAOFactory with at most MaxRegistryDAOs     *)
(* DAOs, their vault registrations, their removal and the transfer of the  *)
(* ownership of the first DAO.                                             *)
(***************************************************************************)
RegistryNext ==
    \/ \E s \in DaoCreators, n \in Names :
          factoryNonce < MaxRegistryDAOs /\ createDAO(s, n)
    \/ \E s \in Users, d \in DaoInputs, v \in VaultInputs : registerVault(s, d, v)
    \/ \E s \in Users, d \in DaoInputs : unregisterVault(s, d)
    \/ \E s \in Users : DAOFactory_pause(s)
    \/ \E s \in Users : DAOFactory_unpause(s)
    \/ \E s \in Users, n \in Addr : deployedDAO_transferOwnership(s, FirstDAO, n)
    \/ \E s \in Users, d \in DaoInputs : emergencyRemoveDAO(s, d)
    \/ \E s \in Users, n \in Addr : DAOFactory_transferOwnership(s, n)

RegistrySpec == DAOInit /\ [][RegistryNext]_vars

(***************************************************************************)
(* The vault factory specification: VaultFactory creating Vaults for two   *)
(* DAOs up to the cap of one DAO, and removing them.                       *)
(***************************************************************************)
VaultFactoryNext ==
    \/ \E d \in VaultDaoInputs, l \in LowLimitInputs : createVault(Creator, d, l)
    \/ \E d \in VaultDaoInputs, l \in LowLimitInputs, n \in SignatureCountInputs :
          createVaultWithCustomParams(Creator, d, l, n)
    \/ \E d \in VaultDaoInputs : createDefaultVault(Creator, d)
    \/ \E s \in Users, v \in CreatedVaultInputs : emergencyRemoveVault(s, v)

VaultFactorySpec == DAOInit /\ [][VaultFactoryNext]_vars

(***************************************************************************)
(* The limit specification: VaultFactory with at most MaxLimitVaults       *)
(* Vaults, its default parameters, and the withdrawal limits of the Vaults *)
(* it created.                                                             *)
(***************************************************************************)
VaultLimitNext ==
    \/ \E s \in DaoCreators, d \in VaultDaoInputs, l \in LimitInputs :
          vaultNonce < MaxLimitVaults /\ createVault(s, d, l)
    \/ \E s \in DaoCreators, d \in VaultDaoInputs, l \in LimitInputs,
          n \in SignatureCountInputs :
          vaultNonce < MaxLimitVaults /\ createVaultWithCustomParams(s, d, l, n)
    \/ \E s \in DaoCreators, d \in VaultDaoInputs :
          vaultNonce < MaxLimitVaults /\ createDefaultVault(s, d)
    \/ \E s \in Users, l \in LimitInputs : updateDefaultWithdrawalLimit(s, l)
    \/ \E s \in Users, n \in SignatureCountInputs :
          updateDefaultRequiredSignatures(s, n)
    \/ \E s \in Users, l \in LimitInputs, n \in SignatureCountInputs :
          updateDefaultParameters(s, l, n)
    \/ \E s \in Users, v \in CreatedVaultInputs, l \in LimitInputs :
          createdVault_updateWithdrawalLimit(s, v, l)

VaultLimitSpec == DAOInit /\ [][VaultLimitNext]_vars

(***************************************************************************)
(* The id specification: the DAO of account 1 creating up to MaxSequence   *)
(* proposals, which its owner votes on and anyone executes, while the      *)
(* clock advances and the owner pauses and unpauses the DAO.               *)
(***************************************************************************)
SequenceIds == 0..(MaxSequence + 1)

SequenceNext ==
    \/ \E s \in Users, t \in Texts, d \in Texts, dur \in Durations : propose(s, t, d, dur)
    \/ \E p \in SequenceIds, b \in BOOLEAN : vote(Creator, p, b)
    \/ \E p \in SequenceIds : executeProposal(Creator, p)
    \/ \E s \in Users : DAO_pause(s)
    \/ \E s \in Users : DAO_unpause(s)
    \/ Tick

SequenceSpec == DAOInit /\ [][SequenceNext]_vars

(***************************************************************************)
(* The attachment specification: the functions of the owner of the DAO of  *)
(* account 1, with two vaults to attach.                                   *)
(***************************************************************************)
AttachNext ==
    \/ \E s \in Users, v \in VaultInputs : attachVault(s, v)
    \/ \E s \in Users : detachVault(s)
    \/ \E s \in Users, m \in Addr : addMember(s, m)
    \/ \E s \in Users, m \in Addr : removeMember(s, m)
    \/ \E s \in Users : DAO_pause(s)
    \/ \E s \in Users : DAO_unpause(s)
    \/ \E s \in Users, n \in Addr : DAO_transferOwnership(s, n)
    \/ \E s \in Users : DAO_renounceOwnership(s)

AttachSpec == DAOInit /\ [][AttachNext]_vars

(***************************************************************************)
(* The bookkeeping specification: the DAO of account 1 is the first DAO    *)
(* that DAOFactory deploys (createDAO by account 1 runs the constructor    *)
(* that DAOInit ran), and its owner calls are made once it is deployed.    *)
(* Both layers record vaults: the DAO in attachedVault, the factory in     *)
(* daoToVault and vaultToDAO.                                              *)
(***************************************************************************)
BookkeepingNext ==
    \/ \E n \in Names : factoryNonce < MaxRegistryDAOs /\ createDAO(Creator, n)
    \/ \E s \in Users, d \in DaoInputs, v \in VaultInputs : registerVault(s, d, v)
    \/ \E s \in Users, d \in DaoInputs : unregisterVault(s, d)
    \/ \E s \in Users, d \in DaoInputs : emergencyRemoveDAO(s, d)
    \/ \E s \in Users, v \in VaultInputs :
          FirstDAO \in Deployed /\ attachVault(s, v)
    \/ \E s \in Users : FirstDAO \in Deployed /\ detachVault(s)
    \/ \E s \in Users : FirstDAO \in Deployed /\ DAO_pause(s)
    \/ \E s \in Users : FirstDAO \in Deployed /\ DAO_unpause(s)
    \/ \E s \in Users : DAOFactory_pause(s)
    \/ \E s \in Users : DAOFactory_unpause(s)

BookkeepingSpec == DAOInit /\ [][BookkeepingNext]_vars

(***************************************************************************)
(* The removal specification: both factories with at most MaxRegistryDAOs  *)
(* DAOs and MaxLimitVaults Vaults, the vault registrations, the            *)
(* attachment in the first DAO, and the emergency removals.                *)
(***************************************************************************)
RemovalNext ==
    \/ \E n \in Names : factoryNonce < MaxRegistryDAOs /\ createDAO(Creator, n)
    \/ \E s \in Users, d \in DaoInputs, v \in VaultInputs : registerVault(s, d, v)
    \/ \E s \in Users, d \in DaoInputs : emergencyRemoveDAO(s, d)
    \/ \E s \in Users, v \in VaultInputs :
          FirstDAO \in Deployed /\ attachVault(s, v)
    \/ \E s \in DaoCreators, d \in VaultDaoInputs :
          vaultNonce < MaxLimitVaults /\ createDefaultVault(s, d)
    \/ \E s \in Users, v \in CreatedVaultInputs : emergencyRemoveVault(s, v)

RemovalSpec == DAOInit /\ [][RemovalNext]_vars

(***************************************************************************)
(* The signer cap specification: the same Vault whose owner adds the      *)
(* accounts in any order, then the further accounts one after the other,  *)
(* up to the cap and beyond, and removes the accounts at any time and the *)
(* further accounts last added first.                                     *)
(***************************************************************************)
\* The further accounts that are signers, the next one to add and the last
\* one added.
ExtraAdded == {a \in ExtraSigners : authorizedSigners[a]}
NextExtra == IF ExtraAdded = ExtraSigners THEN ZERO
             ELSE SignerBase + Cardinality(ExtraAdded) + 1
LastExtra == IF ExtraAdded = {} THEN ZERO
             ELSE SignerBase + Cardinality(ExtraAdded)

SignerCapNext ==
    \/ \E s \in Users, a \in Addr : ExtraAdded = {} /\ addSigner(s, a)
    \/ \E s \in Users : addSigner(s, NextExtra)
    \/ \E s \in Users, a \in Addr \cup {LastExtra} : removeSigner(s, a)

SignerCapSpec == VaultInit /\ [][SignerCapNext]_vars

(***************************************************************************)
(* Properties of the DAO.                                                  *)
(***************************************************************************)
Existing == 1..proposalCount
MemberSet == {a \in Addr : members[a]}
NoDuplicates(list) == \A i, j \in 1..Len(list) : list[i] = list[j] => i = j

\* The four conditions of a successful execution, as the specification
\* states them.
DeadlinePassed(p) == now >= proposals[p].deadline
NotExecuted(p) == ~proposals[p].executed
QuorumReached(p) ==
    proposals[p].yesVotes + proposals[p].noVotes
        >= (memberCount * quorumPercentage) \div 100
Accepted(p) == proposals[p].yesVotes > proposals[p].noVotes
ExecutionConditions(p) ==
    DeadlinePassed(p) /\ NotExecuted(p) /\ QuorumReached(p) /\ Accepted(p)

\* A failed execution names a condition that is violated.
ReasonOfViolatedCondition(p) ==
    LET r == executeProposalResult(p) IN
    /\ r \in {"Voting period not ended", "Proposal already executed",
              "Quorum not reached", "Proposal rejected"}
    /\ r = "Voting period not ended" => ~DeadlinePassed(p)
    /\ r = "Proposal already executed" => ~NotExecuted(p)
    /\ r = "Quorum not reached" => ~QuorumReached(p)
    /\ r = "Proposal rejected" => ~Accepted(p)

\* C1, as stated: in every reachable state, executeProposal succeeds on an
\* existing proposal if and only if the four conditions hold, and otherwise
\* fails with the reason of a violated condition.
C1_Original ==
    \A p \in Existing :
        /\ (ENABLED executeProposal(Creator, p)) <=> ExecutionConditions(p)
        /\ ~ExecutionConditions(p) => ReasonOfViolatedCondition(p)

\* C1, amended: while the DAO is not paused, executeProposal succeeds on an
\* existing proposal if and only if the four conditions hold, and otherwise
\* fails with the reason of a violated condition; while the DAO is paused it
\* fails with "Pausable: paused" whatever the conditions.
C1_ExecuteIffConditions ==
    \A p \in Existing, s \in Users :
        IF paused
        THEN /\ ~ENABLED executeProposal(s, p)
             /\ executeProposalResult(p) = "Pausable: paused"
        ELSE /\ (ENABLED executeProposal(s, p)) <=> ExecutionConditions(p)
             /\ (executeProposalResult(p) = "ok") <=> ExecutionConditions(p)
             /\ ~ExecutionConditions(p) => ReasonOfViolatedCondition(p)

\* A proposal was executed with exactly the quorum (Scenario A has quorum 0;
\* here the quorum is positive and met with equality).
C1_Witness ==
    \E p \in Existing :
        /\ proposals[p].executed
        /\ requiredQuorum > 0
        /\ totalVotes(proposals[p]) = requiredQuorum

\* C2: for every proposal and every address, vote succeeds at most once,
\* whatever else happens in between (member removal and re-addition,
\* ownership transfer).
C2_VoteAtMostOnce ==
    \A p \in 1..MaxProposals, a \in Addr : votesCast[<<p, a>>] <= 1

\* An address that voted was removed from the members afterwards, gave up
\* ownership, and the vote is still open.
C2_Witness ==
    \E p \in Existing, a \in Users :
        /\ votesCast[<<p, a>>] = 1
        /\ ~members[a]
        /\ owner # a
        /\ now < proposals[p].deadline

\* C3, as stated: after an address voted on a proposal, every later vote by
\* it on that proposal fails with "Already voted", whatever the time.
C3_Original ==
    \A p \in Existing, a \in Users :
        votesCast[<<p, a>>] > 0 => voteResult(a, p) = "Already voted"

\* C3, amended: after an address voted on a proposal, every later vote by it
\* on that proposal fails, whatever the time, and so changes no vote count;
\* the reason is "Already voted" when the caller is still a member or the
\* owner, the DAO is not paused and the deadline has not passed, and
\* otherwise "Not a member", "Pausable: paused" or "Voting period ended",
\* in this order of precedence.
C3_SecondVoteFails ==
    \A p \in Existing, a \in Users :
        votesCast[<<p, a>>] > 0 =>
            /\ \A b \in BOOLEAN : ~ENABLED vote(a, p, b)
            /\ voteResult(a, p) =
                 IF ~(members[a] \/ a = owner) THEN "Not a member"
                 ELSE IF paused THEN "Pausable: paused"
                 ELSE IF now >= proposals[p].deadline THEN "Voting period ended"
                 ELSE "Already voted"

\* An address has voted and its second attempt is rejected with "Already
\* voted".
C3_Witness ==
    \E p \in Existing, a \in Users :
        /\ votesCast[<<p, a>>] = 1
        /\ voteResult(a, p) = "Already voted"

\* C4: memberCount equals the number of addresses flagged in members and
\* the length of memberList, and memberList holds exactly the flagged
\* addresses, without duplicates.
C4_MembersConsistent ==
    /\ memberCount = Cardinality(MemberSet)
    /\ memberCount = Len(memberList)
    /\ Range(memberList) = MemberSet
    /\ NoDuplicates(memberList)

\* The creator was removed (after an ownership transfer) from a list of
\* three, which moved the last member into its slot.
C4_Witness ==
    /\ ~members[Creator]
    /\ memberCount = 2

\* C5: the current owner is always a member, and removeMember(owner) by the
\* owner fails with "Cannot remove owner".
C5_OwnerIsMember ==
    /\ members[owner]
    /\ owner \in Range(memberList)
    /\ ~paused => removeMemberResult(owner, owner) = "Cannot remove owner"

\* C6, as stated: a proposal is executed only from its deadline on, executed
\* never becomes false again, executeProposal on an executed proposal fails
\* with "Proposal already executed", and the vote counts of an executed
\* proposal never change.
C6_Original ==
    /\ [](\A p \in Existing :
            proposals[p].executed =>
                executeProposalResult(p) = "Proposal already executed")
    /\ [][\A p \in Existing :
            /\ (~proposals[p].executed /\ proposals'[p].executed)
                   => now >= proposals[p].deadline
            /\ proposals[p].executed =>
                 /\ proposals'[p].executed
                 /\ proposals'[p].yesVotes = proposals[p].yesVotes
                 /\ proposals'[p].noVotes = proposals[p].noVotes]_vars

\* C6, amended: a proposal is executed only from its deadline on, executed
\* never becomes false again, executeProposal on an executed proposal always
\* fails (with "Proposal already executed" while the DAO is not paused, with
\* "Pausable: paused" while it is), and the vote counts of an executed
\* proposal never change.
C6_ExecutedOnceForGood ==
    /\ [](\A p \in Existing :
            proposals[p].executed =>
                /\ now >= proposals[p].deadline
                /\ \A s \in Users : ~ENABLED executeProposal(s, p)
                /\ executeProposalResult(p) =
                     IF paused THEN "Pausable: paused"
                     ELSE "Proposal already executed")
    /\ [][\A p \in Existing :
            /\ (~proposals[p].executed /\ proposals'[p].executed)
                   => now >= proposals[p].deadline
            /\ proposals[p].executed =>
                 /\ proposals'[p].executed
                 /\ proposals'[p].yesVotes = proposals[p].yesVotes
                 /\ proposals'[p].noVotes = proposals[p].noVotes]_vars

\* An executed proposal in a DAO whose membership changed afterwards so that
\* the quorum is no longer met.
C6_Witness ==
    \E p \in Existing :
        /\ proposals[p].executed
        /\ ~QuorumReached(p)

(***************************************************************************)
(* Properties of the Vault.                                                *)
(***************************************************************************)
ExistingSpending == 1..spendingProposalCount

\* C7, as stated: in every Vault state createSpendingProposal fails with
\* "Use direct withdrawal for small amounts" whenever amount <=
\* withdrawalLimit, and withdraw fails with "Amount exceeds withdrawal limit"
\* whenever amount > withdrawalLimit.
C7_Original ==
    \A s \in Users, t \in Assets, v \in Amounts, r \in RecipientInputs,
       d \in Texts, ok \in BOOLEAN :
        /\ v <= withdrawalLimit =>
             createSpendingProposalResult(s, t, v, r, d)
                 = "Use direct withdrawal for small amounts"
        /\ v > withdrawalLimit =>
             withdrawResult(s, t, v, r, ok) = "Amount exceeds withdrawal limit"

\* C7, amended: in every Vault state createSpendingProposal fails whenever
\* amount <= withdrawalLimit, with "Use direct withdrawal for small amounts"
\* when the caller is an authorized signer or the owner and the Vault is not
\* paused; withdraw fails whenever amount > withdrawalLimit, with "Amount
\* exceeds withdrawal limit" when the caller is daoAddress, the Vault is not
\* paused and the recipient is not the zero address; so no amount is
\* accepted by both paths.
C7_LimitSeparatesPaths ==
    \A s \in Users, t \in Assets, v \in Amounts, r \in RecipientInputs,
       d \in Texts, ok \in BOOLEAN :
        /\ v <= withdrawalLimit =>
             /\ createSpendingProposalResult(s, t, v, r, d) # "ok"
             /\ (onlyAuthorizedSigner(s) /\ ~vaultPaused) =>
                  createSpendingProposalResult(s, t, v, r, d)
                      = "Use direct withdrawal for small amounts"
        /\ v > withdrawalLimit =>
             /\ withdrawResult(s, t, v, r, ok) # "ok"
             /\ (s = daoAddress /\ ~vaultPaused /\ r # ZERO) =>
                  withdrawResult(s, t, v, r, ok) = "Amount exceeds withdrawal limit"
        /\ \A s2 \in Users, r2 \in RecipientInputs :
             ~(/\ createSpendingProposalResult(s, t, v, r, d) = "ok"
               /\ withdrawResult(s2, t, v, r2, ok) = "ok")

\* Both paths were taken: a direct withdrawal paid the recipient, and a
\* spending proposal for a larger amount of the same asset is pending.
C7_Witness ==
    \E p \in ExistingSpending :
        /\ ~spendingProposals[p].executed
        /\ received[spendingProposals[p].token] > 0
        /\ spendingProposals[p].amount > withdrawalLimit

\* C8: in every reachable state of a Vault, from its creation on,
\* 1 <= requiredSignatures <= number of authorized signers.
C8_SignaturesWithinSigners ==
    /\ requiredSignatures >= 1
    /\ requiredSignatures <= Len(signerList)

\* C9, as stated: removeSigner succeeds only when the signer count after the
\* removal is still strictly greater than requiredSignatures.
C9_Original ==
    \A s \in Users, a \in VaultAddr :
        removeSignerResult(s, a) = "ok" => Len(signerList) - 1 > requiredSignatures

\* C9, amended: removeSigner is rejected whenever the removal would leave
\* the number of signers below requiredSignatures (with "Cannot remove signer
\* below required threshold" when the caller is the owner, the Vault is not
\* paused and the address is a signer); it succeeds only when the signer
\* count after the removal is still at least requiredSignatures.
C9_RemovalKeepsThreshold ==
    /\ [](\A s \in Users, a \in VaultAddr :
            /\ Len(signerList) - 1 < requiredSignatures =>
                 /\ removeSignerResult(s, a) # "ok"
                 /\ (s = vaultOwner /\ ~vaultPaused /\ a # ZERO /\ authorizedSigners[a])
                      => removeSignerResult(s, a)
                             = "Cannot remove signer below required threshold"
            /\ removeSignerResult(s, a) = "ok" =>
                 Len(signerList) - 1 >= requiredSignatures)
    /\ [][Len(signerList') < Len(signerList) =>
              /\ Len(signerList') = Len(signerList) - 1
              /\ Len(signerList') >= requiredSignatures']_vars

\* The deployer was removed from the signers, and the signers left are
\* exactly as many as requiredSignatures: one more removal is rejected.
C9_Witness ==
    /\ ~authorizedSigners[Creator]
    /\ ~authorizedSigners[FACTORY]
    /\ Len(signerList) = requiredSignatures
    /\ \E a \in Users :
          removeSignerResult(vaultOwner, a)
              = "Cannot remove signer below required threshold"

\* C10: a successful approveSpendingProposal that brings the approval count
\* to requiredSignatures executes the proposal within the call: with a
\* succeeding transfer the proposal is executed, the tracked balance of its
\* asset (and what the Vault holds of it) drops by exactly its amount and the
\* recipient receives that amount; an approval that leaves the count below
\* requiredSignatures changes neither executed nor any balance.
C10_ApprovalExecutes ==
    [][\A s \in Users, p \in ExistingSpending, ok \in BOOLEAN :
         approveSpendingProposal(s, p, ok) =>
            LET before == spendingProposals[p]
                after == spendingProposals'[p]
                t == before.token
            IN  /\ after.approvals = before.approvals + 1
                /\ (after.approvals = requiredSignatures /\ ok) =>
                      /\ after.executed
                      /\ tokenBalances' = [tokenBalances EXCEPT ![t] = @ - before.amount]
                      /\ custody' = [custody EXCEPT ![t] = @ - before.amount]
                      /\ received' = [received EXCEPT ![t] = @ + before.amount]
                      /\ tokenBalances'[t] >= 0
                /\ after.approvals < requiredSignatures =>
                      /\ after.executed = before.executed
                      /\ ~after.executed
                      /\ UNCHANGED <<tokenBalances, custody, received>>]_vars

\* Scenario B at the scale of the model: limit 1, two signatures, balance 3,
\* amount 2; after the second approval the proposal is executed, the balance
\* is 1 and the recipient has received 2.
C10_Witness ==
    \E p \in ExistingSpending :
        /\ spendingProposals[p].executed
        /\ spendingProposals[p].approvals = 2
        /\ requiredSignatures = 2
        /\ withdrawalLimit = 1
        /\ spendingProposals[p].amount = 2
        /\ tokenBalances[spendingProposals[p].token] = 1
        /\ received[spendingProposals[p].token] = 2

\* What a step does to the money of proposal p: nothing, or one payment of
\* its amount in its asset.
NoPayment == UNCHANGED <<tokenBalances, custody, received>>

PaymentOf(p) ==
    LET t == spendingProposals[p].token
        v == spendingProposals[p].amount
    IN  /\ tokenBalances' = [tokenBalances EXCEPT ![t] = @ - v]
        /\ custody' = [custody EXCEPT ![t] = @ - v]
        /\ received' = [received EXCEPT ![t] = @ + v]

\* The amount of proposal p is taken from the tracked balance but does not
\* leave the Vault.
BookedOnly(p) ==
    LET t == spendingProposals[p].token
        v == spendingProposals[p].amount
    IN  /\ tokenBalances' = [tokenBalances EXCEPT ![t] = @ - v]
        /\ UNCHANGED <<custody, received>>

\* C11, as stated: no double spend, and after a successful execution every
\* further executeSpendingProposal or approveSpendingProposal on the proposal
\* fails with "Proposal already executed".
C11_Original ==
    /\ [](\A p \in ExistingSpending :
            spendingProposals[p].executed =>
               \A s \in Users :
                  /\ executeSpendingProposalResult(p) = "Proposal already executed"
                  /\ approveSpendingProposalResult(s, p) = "Proposal already executed")
    /\ [][\A p \in ExistingSpending :
            spendingProposals[p].executed => spendingProposals'[p].executed]_vars

\* C11, amended: each spending proposal causes at most one successful
\* transfer of its amount: a step that changes a proposal either executes it,
\* paying its amount once and reducing the tracked balance by exactly that
\* amount (even when the token's transfer returned false and nothing left
\* the Vault), or pays nothing; an executed proposal never changes again, and
\* every further executeSpendingProposal or approveSpendingProposal on it
\* fails, with "Proposal already executed" when the earlier checks pass (for
\* executeSpendingProposal: not paused and approvals >= requiredSignatures;
\* for approveSpendingProposal: authorized caller, not paused, now < deadline).
C11_NoDoubleSpend ==
    /\ [](\A p \in ExistingSpending :
            spendingProposals[p].executed =>
               \A s \in Users :
                  /\ executeSpendingProposalResult(p) # "ok"
                  /\ approveSpendingProposalResult(s, p) # "ok"
                  /\ (~vaultPaused /\ spendingProposals[p].approvals >= requiredSignatures)
                       => executeSpendingProposalResult(p) = "Proposal already executed"
                  /\ (onlyAuthorizedSigner(s) /\ ~vaultPaused
                        /\ now < spendingProposals[p].deadline)
                       => approveSpendingProposalResult(s, p) = "Proposal already executed")
    /\ [][\A p \in ExistingSpending :
            /\ spendingProposals[p].executed =>
                  spendingProposals'[p] = spendingProposals[p]
            /\ spendingProposals'[p] # spendingProposals[p] =>
                  IF spendingProposals'[p].executed
                  THEN PaymentOf(p) \/ BookedOnly(p)
                  ELSE NoPayment]_vars

\* A proposal was executed: the recipient holds its amount, and a further
\* execution is refused as already executed.
C11_Witness ==
    \E p \in ExistingSpending :
        /\ spendingProposals[p].executed
        /\ received[spendingProposals[p].token] = spendingProposals[p].amount
        /\ executeSpendingProposalResult(p) = "Proposal already executed"

\* The steps whose external transfer of proposal p's amount fails: an
\* approval that reaches the threshold, or an execution.
FailedAutoExecution(s, p) ==
    /\ approveSpendingProposal(s, p, FALSE)
    /\ thresholdReached(spendingProposals[p].approvals + 1)

FailedExecution(s, p) == executeSpendingProposal(s, p, FALSE)

\* C12: when the external transfer fails during executeSpendingProposal or
\* during the auto-execution inside approveSpendingProposal, the call does
\* not fail, the tracked balance is what it was before the call, the proposal
\* is left not executed, its approvals (the one just given included) are
\* kept, and executeSpendingProposal can succeed afterwards without a new
\* approval.
C12_SoftFailureRestores ==
    [][\A s \in Users, p \in ExistingSpending :
         /\ FailedAutoExecution(s, p) =>
               /\ tokenBalances' = tokenBalances
               /\ ~spendingProposals'[p].executed
               /\ spendingProposals'[p].approvals = spendingProposals[p].approvals + 1
               /\ spendingProposals'[p].hasApproved[s]
               /\ (executeSpendingProposalResult(p) = "ok")'
         /\ FailedExecution(s, p) =>
               /\ tokenBalances' = tokenBalances
               /\ ~spendingProposals'[p].executed
               /\ spendingProposals'[p].approvals = spendingProposals[p].approvals
               /\ (executeSpendingProposalResult(p) = "ok")']_vars

\* The reasons with which a withdraw fails for its transfer alone.
TransferFailures == {"ETH transfer failed", "SafeERC20: ERC20 operation did not succeed"}

\* C13: a withdraw whose external transfer fails, for ETH or for a token,
\* fails as a whole: in no state is it accepted, a call that passes every
\* other check fails for the transfer alone, and no step of the Vault is such
\* a withdraw, so the tracked balance is not decremented and nothing is paid.
C13_FailedWithdrawReverts ==
    /\ [](\A s \in Users, t \in Assets, v \in Amounts, r \in RecipientInputs :
            /\ withdrawResult(s, t, v, r, FALSE) # "ok"
            /\ withdrawResult(s, t, v, r, TRUE) = "ok" =>
                  withdrawResult(s, t, v, r, FALSE) \in TransferFailures)
    /\ [][\A s \in Users, t \in Assets, v \in Amounts, r \in RecipientInputs :
            ~withdraw(s, t, v, r, FALSE)]_vars

\* The Vault holds both assets and a withdraw of each by daoAddress passes
\* every check but the transfer.
C13_Witness ==
    \A t \in Assets :
        \E v \in Amounts :
            /\ tokenBalances[t] >= v
            /\ withdrawResult(daoAddress, t, v, Recipient, FALSE) \in TransferFailures

\* C14: in every reachable state of a Vault, for every asset (ETH or token),
\* the tracked balance tokenBalances equals the amount of the asset the Vault
\* holds.
C14_TrackedEqualsHeld ==
    \A t \in Assets : tokenBalances[t] = custody[t]

\* C15: for every asset and every amount X with 0 < X <= withdrawalLimit,
\* after a successful deposit of X the withdraw of X by daoAddress succeeds
\* and leaves the tracked balance of every asset as it was before the
\* deposit; the deposit emits one Deposit event and the withdraw one
\* Withdrawal event, each of amount X for that asset.
C15_DepositWithdrawRoundTrip ==
    [][\A s \in Users, t \in Assets, X \in Amounts :
         ((IF t = ZERO THEN depositETH(s, X) ELSE depositToken(s, t, X))
            /\ X <= withdrawalLimit) =>
              /\ X > 0
              /\ (withdrawResult(daoAddress, t, X, Recipient, TRUE) = "ok")'
              /\ (withdrawn(t, X))' = tokenBalances
              /\ Len(depositEvents(t, s, X)) = 1
              /\ depositEvents(t, s, X)[1].event = "Deposit"
              /\ depositEvents(t, s, X)[1].token = t
              /\ depositEvents(t, s, X)[1].amount = X
              /\ Len(withdrawEvents(t, Recipient, X)) = 1
              /\ withdrawEvents(t, Recipient, X)[1].event = "Withdrawal"
              /\ withdrawEvents(t, Recipient, X)[1].token = t
              /\ withdrawEvents(t, Recipient, X)[1].amount = X]_vars

\* Without any spending proposal, an amount within the limit was deposited
\* and withdrawn again: the recipient holds it and the Vault tracks nothing.
C15_Witness ==
    /\ spendingProposalCount = 0
    /\ \E t \in Assets :
          /\ received[t] > 0
          /\ received[t] <= withdrawalLimit
          /\ tokenBalances[t] = 0
          /\ custody[t] = 0

\* The accounts that approved proposal p.
Approvers(p) == {a \in VaultAddr : spendingProposals[p].hasApproved[a]}

\* C16, as stated: after a signer has approved a spending proposal, a second
\* approveSpendingProposal by the same signer on it fails with "Already
\* approved", for every value of requiredSignatures.
C16_Original ==
    \A p \in ExistingSpending, s \in Users :
        spendingProposals[p].hasApproved[s] =>
            approveSpendingProposalResult(s, p) = "Already approved"

\* C16, amended: after a signer has approved a spending proposal, every
\* later approveSpendingProposal by the same signer on it fails and the
\* approval count does not increase: approvals is the number of distinct
\* approvers and an approval is never withdrawn.  The reason is "Already
\* approved" when the caller is still an authorized signer or the owner, the
\* Vault is not paused, now < deadline and the proposal is not executed.
C16_SecondApprovalFails ==
    /\ [](\A p \in ExistingSpending :
            /\ spendingProposals[p].approvals = Cardinality(Approvers(p))
            /\ \A s \in Users :
                 spendingProposals[p].hasApproved[s] =>
                    /\ approveSpendingProposalResult(s, p) # "ok"
                    /\ (/\ onlyAuthorizedSigner(s)
                        /\ ~vaultPaused
                        /\ now < spendingProposals[p].deadline
                        /\ ~spendingProposals[p].executed)
                         => approveSpendingProposalResult(s, p) = "Already approved")
    /\ [][\A p \in ExistingSpending, s \in Users :
            /\ spendingProposals[p].hasApproved[s] =>
                  spendingProposals'[p].hasApproved[s]
            /\ approveSpendingProposal(s, p, TRUE) \/ approveSpendingProposal(s, p, FALSE)
                  => ~spendingProposals[p].hasApproved[s]]_vars

\* With requiredSignatures = 1 a signer has approved a proposal that is not
\* executed, and the second approval is refused as already approved.
C16_Witness ==
    \E p \in ExistingSpending, s \in Users :
        /\ requiredSignatures = 1
        /\ spendingProposals[p].hasApproved[s]
        /\ spendingProposals[p].approvals = 1
        /\ approveSpendingProposalResult(s, p) = "Already approved"

\* C17: any authorized signer or the owner can trigger emergencyPause, and
\* while the Vault is paused no step changes a tracked balance,
\* spendingProposalCount or a proposal's approval count, and only the owner's
\* unpause clears the pause.
C17_PauseFreezes ==
    /\ [](\A s \in Users :
            (onlyAuthorizedSigner(s) /\ ~vaultPaused) => emergencyPauseResult(s) = "ok")
    /\ [][vaultPaused =>
            /\ UNCHANGED <<tokenBalances, spendingProposalCount>>
            /\ \A p \in ExistingSpending :
                  spendingProposals'[p].approvals = spendingProposals[p].approvals
            /\ ~vaultPaused' => Vault_unpause(vaultOwner)]_vars

\* C18: while a DAO is paused every mutating operation other than unpause is
\* rejected and leaves the state unchanged: addMember, removeMember, propose,
\* vote, executeProposal, attachVault, detachVault and setQuorumPercentage.
C18_PausedRejects ==
    /\ [](paused =>
            \A s \in Users :
               /\ \A m \in Addr : addMemberResult(s, m) # "ok"
               /\ \A m \in Addr : removeMemberResult(s, m) # "ok"
               /\ \A t \in Texts, d \in Texts, dur \in Durations :
                     proposeResult(s, t, d, dur) # "ok"
               /\ \A p \in ProposalIds : voteResult(s, p) # "ok"
               /\ \A p \in ProposalIds : executeProposalResult(p) # "ok"
               /\ \A v \in {ZERO, VAULT} : attachVaultResult(s, v) # "ok"
               /\ detachVaultResult(s) # "ok"
               /\ \A q \in QuorumInputs : setQuorumPercentageResult(s, q) # "ok")
    /\ [][paused =>
            UNCHANGED <<members, memberList, memberCount, proposals,
                        proposalCount, attachedVault, quorumPercentage>>]_vars

(***************************************************************************)
(* Properties of DAOFactory.                                               *)
(***************************************************************************)
\* C19, as stated: each address has at most 10 entries in userDAOs, and a
\* createDAO call by an address that has 10 fails with "Max DAOs per user
\* exceeded".
C19_Original ==
    \A a \in Users :
        /\ Len(userDAOs[a]) <= MAX_DAOS_PER_USER
        /\ Len(userDAOs[a]) = MAX_DAOS_PER_USER =>
              \A n \in Names : createDAOResult(a, n) = "Max DAOs per user exceeded"

\* C19, amended: each address has at most 10 entries in userDAOs; a createDAO
\* call by an address that has 10 fails, with "Max DAOs per user exceeded"
\* when the factory is not paused and the name has 1 to 100 bytes, and
\* userDAOs changes only by a createDAO of an address that has fewer than 10,
\* which adds one entry to its list and to allDAOs and one to daoCount.
C19_AtMostTenDAOs ==
    /\ [](\A a \in Users :
            /\ Len(userDAOs[a]) <= MAX_DAOS_PER_USER
            /\ Len(userDAOs[a]) = MAX_DAOS_PER_USER =>
                 \A n \in Names :
                    /\ createDAOResult(a, n) # "ok"
                    /\ (~factoryPaused /\ Len(n) > 0 /\ Len(n) <= MAX_NAME_LENGTH)
                         => createDAOResult(a, n) = "Max DAOs per user exceeded")
    /\ [][userDAOs' # userDAOs =>
            \E a \in Users :
               /\ Len(userDAOs[a]) < MAX_DAOS_PER_USER
               /\ Len(userDAOs'[a]) = Len(userDAOs[a]) + 1
               /\ \A b \in Users \ {a} : userDAOs'[b] = userDAOs[b]
               /\ Len(allDAOs') = Len(allDAOs) + 1
               /\ daoCount' = daoCount + 1]_vars

\* An address has 10 DAOs, another one created a DAO after that, and the
\* next createDAO of the first is refused for the cap.
C19_Witness ==
    \E a \in Users :
        /\ Len(userDAOs[a]) = MAX_DAOS_PER_USER
        /\ factoryNonce > MAX_DAOS_PER_USER
        /\ createDAOResult(a, "T") = "Max DAOs per user exceeded"

\* The DAOs and vaults the registry is asked about.
RegistryDAOs == DaoInputs \ {ZERO}
RegistryVaults == VaultInputs \ {ZERO}
IsOwnerOf(s, d) == d \in Deployed /\ daoOwners[d] = s

\* C20, as stated: registerVault(dao, vault) and unregisterVault(dao) called
\* by an address that is not the current owner of the DAO fail with "Only DAO
\* owner can register vault" / "Only DAO owner can unregister vault".
C20_Original ==
    \A s \in Users, d \in RegistryDAOs \cap Deployed, v \in RegistryVaults :
        ~IsOwnerOf(s, d) =>
            /\ registerVaultResult(s, d, v) = "Only DAO owner can register vault"
            /\ unregisterVaultResult(s, d) = "Only DAO owner can unregister vault"

\* C20, amended: registerVault(dao, vault) and unregisterVault(dao) succeed
\* only when the caller is the current owner of the DAO, and then
\* getDAOVault(dao) returns the vault, or the zero address; a call by any
\* other address fails, with "Only DAO owner can register vault" / "Only DAO
\* owner can unregister vault" when the checks before the ownership test
\* pass (factory not paused, non-zero addresses, for registerVault neither
\* the DAO nor the vault registered yet, for unregisterVault a vault
\* registered for the DAO).
C20_OnlyOwnerRegisters ==
    /\ [](\A s \in Users, d \in RegistryDAOs, v \in RegistryVaults :
            ~IsOwnerOf(s, d) =>
               /\ registerVaultResult(s, d, v) # "ok"
               /\ unregisterVaultResult(s, d) # "ok"
               /\ (/\ d \in Deployed
                   /\ ~factoryPaused
                   /\ daoToVault[d] = ZERO
                   /\ vaultToDAO[v] = ZERO)
                    => registerVaultResult(s, d, v) = "Only DAO owner can register vault"
               /\ (d \in Deployed /\ ~factoryPaused /\ daoToVault[d] # ZERO)
                    => unregisterVaultResult(s, d) = "Only DAO owner can unregister vault")
    /\ [][\A s \in Users, d \in RegistryDAOs :
            /\ \A v \in RegistryVaults :
                  registerVault(s, d, v) =>
                     /\ IsOwnerOf(s, d)
                     /\ getDAOVault(d)' = v
                     /\ vaultToDAO'[v] = d
            /\ unregisterVault(s, d) =>
                  /\ IsOwnerOf(s, d)
                  /\ getDAOVault(d)' = ZERO
                  /\ vaultToDAO'[getDAOVault(d)] = ZERO]_vars

\* The ownership of the first DAO was transferred, the vault is registered
\* for it, and its creator is refused the unregistration.
C20_Witness ==
    \E c \in Users :
        /\ FirstDAO \in Range(userDAOs[c])
        /\ ~IsOwnerOf(c, FirstDAO)
        /\ getDAOVault(FirstDAO) = VAULT
        /\ unregisterVaultResult(c, FirstDAO) = "Only DAO owner can unregister vault"
        /\ registerVaultResult(c, SecondDAO, VAULT) # "ok"

\* C21: in every reachable state of DAOFactory the two registry maps are
\* mutually inverse, daoToVault[d] = v exactly when vaultToDAO[v] = d for
\* non-zero d and v; no two DAOs share a vault and no two vaults share a DAO;
\* and after unregisterVault(d) both lookups return the zero address.
C21_RegistryInverse ==
    /\ [](/\ \A d \in RegistryDAOs, v \in RegistryVaults :
                daoToVault[d] = v <=> vaultToDAO[v] = d
          /\ \A d \in RegistryDAOs : daoToVault[d] \in VaultInputs
          /\ \A v \in RegistryVaults : vaultToDAO[v] \in DaoInputs
          /\ \A d1, d2 \in RegistryDAOs :
                (daoToVault[d1] # ZERO /\ daoToVault[d1] = daoToVault[d2]) => d1 = d2
          /\ \A v1, v2 \in RegistryVaults :
                (vaultToDAO[v1] # ZERO /\ vaultToDAO[v1] = vaultToDAO[v2]) => v1 = v2)
    /\ [][\A s \in Users, d \in RegistryDAOs :
            unregisterVault(s, d) =>
               /\ getDAOVault(d)' = ZERO
               /\ (getVaultDAO(getDAOVault(d)))' = ZERO]_vars

\* The first DAO was removed by emergencyRemoveDAO and registered again
\* afterwards, and each of the two DAOs has a vault of its own.
C21_Witness ==
    /\ FirstDAO \in Deployed
    /\ FirstDAO \notin Range(allDAOs)
    /\ daoToVault[FirstDAO] = OtherVault
    /\ daoToVault[SecondDAO] = VAULT
    /\ vaultToDAO[VAULT] = SecondDAO

\* C22: only the owner of DAOFactory can pause and unpause it; while it is
\* paused createDAO, registerVault and unregisterVault fail, so that no step
\* of a paused factory is one of them; and once the factory is unpaused
\* createDAO with a valid name succeeds again for a user below the cap.
C22_FactoryPause ==
    /\ [](/\ \A s \in Users :
                (DAOFactory_pauseResult(s) = "ok" \/ DAOFactory_unpauseResult(s) = "ok")
                   => s = factoryOwner
          /\ factoryPaused =>
                /\ \A s \in Users, n \in Names :
                      createDAOResult(s, n) = "Pausable: paused"
                /\ \A s \in Users, d \in DaoInputs, v \in VaultInputs :
                      /\ registerVaultResult(s, d, v) = "Pausable: paused"
                      /\ unregisterVaultResult(s, d) = "Pausable: paused")
    /\ [][/\ factoryPaused' # factoryPaused =>
                \/ DAOFactory_pause(factoryOwner)
                \/ DAOFactory_unpause(factoryOwner)
          /\ factoryPaused =>
                /\ \A s \in Users, n \in Names : ~createDAO(s, n)
                /\ \A s \in Users, d \in DaoInputs, v \in VaultInputs :
                      ~registerVault(s, d, v) /\ ~unregisterVault(s, d)
          /\ (factoryPaused /\ ~factoryPaused') =>
                \A s \in Users :
                   Len(userDAOs[s]) < MAX_DAOS_PER_USER
                      => (createDAOResult(s, "T") = "ok")']_vars

\* The factory is paused by an owner other than its deployer, while a DAO
\* with a registered vault exists and another DAO could still be created.
C22_Witness ==
    /\ factoryPaused
    /\ factoryOwner # FactoryDeployer
    /\ daoToVault[FirstDAO] = VAULT
    /\ factoryNonce < MaxRegistryDAOs
    /\ unregisterVaultResult(daoOwners[FirstDAO], FirstDAO) = "Pausable: paused"

\* C23, as stated for the empty name: createDAO("") fails with "DAO name
\* cannot be empty".
C23_Original ==
    \A c \in Users : createDAOResult(c, "") = "DAO name cannot be empty"

\* C23, amended: every successful createDAO(name) by caller c creates a
\* fresh DAO whose owner is c and whose member set is exactly {c} with
\* memberCount 1, appends it to userDAOs[c] and to allDAOs and increases
\* daoCount by exactly 1, the lists of every other user staying as they
\* are; createDAO with an empty name always fails, with "DAO name cannot be
\* empty" when the factory is not paused.
C23_CreateDAO ==
    /\ [](\A c \in Users :
            /\ createDAOResult(c, "") # "ok"
            /\ ~factoryPaused => createDAOResult(c, "") = "DAO name cannot be empty")
    /\ [][\A c \in Users, n \in Names :
            createDAO(c, n) =>
               /\ n # ""
               /\ \E d \in DaoAddrs :
                     /\ d \notin Deployed
                     /\ d \notin Range(allDAOs)
                     /\ \A u \in Users : d \notin Range(userDAOs[u])
                     /\ daoOwners'[d] = c
                     /\ daoMembers'[d].members = {c}
                     /\ daoMembers'[d].memberList = <<c>>
                     /\ daoMembers'[d].memberCount = 1
                     /\ userDAOs'[c] = Append(userDAOs[c], d)
                     /\ allDAOs' = Append(allDAOs, d)
               /\ daoCount' = daoCount + 1
               /\ \A u \in Addr \ {c} : userDAOs'[u] = userDAOs[u]]_vars

\* Two users have created DAOs: the second DAO belongs to another user than
\* the first, and each is owned by its creator, its only member.
C23_Witness ==
    /\ daoCount >= 2
    /\ \E c1, c2 \in Users :
          /\ c1 # c2
          /\ FirstDAO \in Range(userDAOs[c1])
          /\ SecondDAO \in Range(userDAOs[c2])
          /\ daoOwners[SecondDAO] = c2
          /\ daoMembers[SecondDAO].members = {c2}
    /\ ~factoryPaused

(***************************************************************************)
(* Properties of VaultFactory.                                             *)
(***************************************************************************)
VaultDAOs == VaultDaoInputs \ {ZERO}
AtVaultCap(d) == Len(daoVaults[d]) = MAX_VAULTS_PER_DAO

\* C24, as stated: a createVault, createVaultWithCustomParams or
\* createDefaultVault call for a DAO that already has 5 vaults fails with
\* "Max vaults per DAO exceeded".
C24_Original ==
    \A s \in Users, d \in VaultDAOs :
        AtVaultCap(d) =>
            /\ \A l \in LimitInputs :
                  createVaultResult(s, d, l) = "Max vaults per DAO exceeded"
            /\ \A l \in LimitInputs, n \in SignatureCountInputs :
                  createVaultWithCustomParamsResult(s, d, l, n)
                     = "Max vaults per DAO exceeded"
            /\ createDefaultVaultResult(s, d) = "Max vaults per DAO exceeded"

\* C24, amended: in every reachable state of VaultFactory each DAO address
\* has at most 5 entries in daoVaults; every createVault,
\* createVaultWithCustomParams or createDefaultVault call for a DAO that
\* already has 5 fails, with "Max vaults per DAO exceeded" when the
\* withdrawal limit and the signature count are within their bounds, as
\* they always are for createDefaultVault; and daoVaults[d] grows only by one
\* entry, from a length below 5, together with allVaults and vaultCount.
C24_AtMostFiveVaults ==
    /\ [](\A d \in VaultDAOs :
            /\ Len(daoVaults[d]) <= MAX_VAULTS_PER_DAO
            /\ AtVaultCap(d) =>
                  \A s \in Users :
                     /\ createDefaultVaultResult(s, d) = "Max vaults per DAO exceeded"
                     /\ \A l \in LimitInputs :
                           /\ createVaultResult(s, d, l) # "ok"
                           /\ WithinLimitBounds(l) =>
                                 createVaultResult(s, d, l)
                                    = "Max vaults per DAO exceeded"
                     /\ \A l \in LimitInputs, n \in SignatureCountInputs :
                           /\ createVaultWithCustomParamsResult(s, d, l, n) # "ok"
                           /\ (WithinLimitBounds(l) /\ WithinSignatureBounds(n)) =>
                                 createVaultWithCustomParamsResult(s, d, l, n)
                                    = "Max vaults per DAO exceeded")
    /\ [][\A d \in VaultDAOs :
            Len(daoVaults'[d]) > Len(daoVaults[d]) =>
               /\ Len(daoVaults[d]) < MAX_VAULTS_PER_DAO
               /\ Len(daoVaults'[d]) = Len(daoVaults[d]) + 1
               /\ Len(allVaults') = Len(allVaults) + 1
               /\ vaultCount' = vaultCount + 1]_vars

\* The first DAO has five vaults and is refused a sixth, while the second
\* DAO has one vault and can still get more.
C24_Witness ==
    /\ AtVaultCap(FirstDAO)
    /\ getDAOVaultCount(SecondDAO) = 1
    /\ createDefaultVaultResult(Creator, FirstDAO) = "Max vaults per DAO exceeded"
    /\ createDefaultVaultResult(Creator, SecondDAO) = "ok"

\* C25: the withdrawal limit of every Vault created through VaultFactory
\* lies within [MIN_WITHDRAWAL_LIMIT, MAX_WITHDRAWAL_LIMIT] in every reachable
\* state, and updateWithdrawalLimit succeeds only for the owner of the Vault
\* and only with a value within those bounds.
C25_LimitWithinBounds ==
    \A v \in DeployedVaults :
        /\ WithinLimitBounds(createdVaults[v].withdrawalLimit)
        /\ \A s \in Users, l \in LimitInputs :
              createdVault_updateWithdrawalLimitResult(s, v, l) = "ok"
                 => (s = createdVaults[v].owner /\ WithinLimitBounds(l))

(***************************************************************************)
(* Authorization, proposal ids and the attached vault of the DAO.          *)
(***************************************************************************)
NotOwner == "Ownable: caller is not the owner"

\* C26: addMember, removeMember, attachVault, detachVault,
\* setQuorumPercentage, pause and unpause called by an address other than
\* the current owner are rejected, and propose and vote called by an address
\* that is neither a member nor the owner are rejected with "Not a member";
\* no step of the DAO is such a call, so a rejection leaves the state as it
\* is.
C26_Authorization ==
    /\ [](\A s \in Users :
            /\ s # owner =>
                  /\ \A m \in Addr :
                        /\ addMemberResult(s, m) = NotOwner
                        /\ removeMemberResult(s, m) = NotOwner
                  /\ \A v \in {ZERO, VAULT} : attachVaultResult(s, v) = NotOwner
                  /\ detachVaultResult(s) = NotOwner
                  /\ \A q \in QuorumInputs : setQuorumPercentageResult(s, q) = NotOwner
                  /\ DAO_pauseResult(s) = NotOwner
                  /\ DAO_unpauseResult(s) = NotOwner
            /\ (~members[s] /\ s # owner) =>
                  /\ \A t \in Texts, d \in Texts, dur \in Durations :
                        proposeResult(s, t, d, dur) = "Not a member"
                  /\ \A p \in ProposalIds : voteResult(s, p) = "Not a member")
    /\ [][\A s \in Users :
            /\ s # owner =>
                  /\ \A m \in Addr : ~addMember(s, m) /\ ~removeMember(s, m)
                  /\ \A v \in {ZERO, VAULT} : ~attachVault(s, v)
                  /\ ~detachVault(s)
                  /\ \A q \in QuorumInputs : ~setQuorumPercentage(s, q)
                  /\ ~DAO_pause(s) /\ ~DAO_unpause(s)
            /\ (~members[s] /\ s # owner) =>
                  /\ \A t \in Texts, d \in Texts, dur \in Durations :
                        ~propose(s, t, d, dur)
                  /\ \A p \in ProposalIds, b \in BOOLEAN : ~vote(s, p, b)]_vars

\* A proposal is open for voting in a DAO that is not paused: a member other
\* than the owner can vote but is refused addMember, and an address that is
\* neither member nor owner is refused the vote.
C26_Witness ==
    /\ ~paused
    /\ proposalCount >= 1
    /\ \E m, s \in Users :
          /\ members[m] /\ m # owner
          /\ ~members[s] /\ s # owner
          /\ voteResult(m, 1) = "ok"
          /\ addMemberResult(m, s) = NotOwner
          /\ voteResult(s, 1) = "Not a member"
          /\ addMemberResult(owner, s) = "ok"

ValidDuration(duration) ==
    duration >= MIN_PROPOSAL_DURATION /\ duration <= MAX_PROPOSAL_DURATION

\* C27: proposal ids are assigned sequentially, the k-th successful propose
\* creating the proposal with id k; proposalCount never decreases and changes
\* only in a successful propose, so that a failed propose consumes no id; the
\* deadline of a proposal is its creation time plus a duration within
\* [1 hour, 30 days], and it never changes afterwards.
C27_SequentialIds ==
    /\ [](/\ Len(proposals) = proposalCount
          /\ \A k \in Existing : proposals[k].id = k)
    /\ [][/\ proposalCount' >= proposalCount
          /\ \A k \in Existing :
                /\ proposals'[k].id = proposals[k].id
                /\ proposals'[k].deadline = proposals[k].deadline
          /\ proposalCount' # proposalCount =>
                /\ proposalCount' = proposalCount + 1
                /\ proposals'[proposalCount'].id = proposalCount'
                /\ \E s \in Users, t \in Texts, d \in Texts, dur \in Durations :
                      /\ proposeResult(s, t, d, dur) = "ok"
                      /\ propose(s, t, d, dur)
                      /\ ValidDuration(dur)
                      /\ proposals'[proposalCount'].deadline = now + dur
          /\ \A s \in Users, t \in Texts, d \in Texts, dur \in Durations :
                proposeResult(s, t, d, dur) # "ok" => ~propose(s, t, d, dur)]_vars

\* Three proposals were created at different times: the first is executed
\* and the deadline of the third lies after the deadline of the first.
C27_Witness ==
    /\ proposalCount >= 3
    /\ proposals[1].executed
    /\ proposals[3].id = 3
    /\ proposals[3].deadline > proposals[1].deadline
    /\ now >= proposals[1].deadline
    /\ proposeResult(Creator, "", "T", MIN_PROPOSAL_DURATION) = "Title cannot be empty"

(***************************************************************************)
(* Expiry of the spending proposals of the Vault.                          *)
(***************************************************************************)
Expired(p) == now >= spendingProposals[p].deadline

\* C28, as stated: once the time reaches the deadline of a spending
\* proposal, every approveSpendingProposal on it fails with "Proposal
\* expired".
C28_Original ==
    \A s \in Users, p \in ExistingSpending :
        Expired(p) => approveSpendingProposalResult(s, p) = "Proposal expired"

\* C28, amended: once the time reaches the deadline of a spending proposal
\* (its creation time + 7 days), every approveSpendingProposal on it fails,
\* with "Proposal expired" when the caller is an authorized signer or the
\* owner and the Vault is not paused; its approval count and its approver
\* set never change again, and it stays readable through
\* getSpendingProposal, which keeps returning the same id, token, amount,
\* recipient, description, approval count and deadline.
C28_ExpiredTakesNoApproval ==
    /\ [](\A p \in ExistingSpending :
            Expired(p) =>
               /\ getSpendingProposalResult(p) = "ok"
               /\ \A s \in Users :
                     /\ approveSpendingProposalResult(s, p) # "ok"
                     /\ (onlyAuthorizedSigner(s) /\ ~vaultPaused) =>
                           approveSpendingProposalResult(s, p) = "Proposal expired")
    /\ [][\A p \in ExistingSpending :
            Expired(p) =>
               /\ Expired(p)'
               /\ spendingProposals'[p].approvals = spendingProposals[p].approvals
               /\ spendingProposals'[p].hasApproved = spendingProposals[p].hasApproved
               /\ (getSpendingProposalResult(p))' = "ok"
               /\ \A i \in 1..7 : (getSpendingProposal(p))'[i] = getSpendingProposal(p)[i]]_vars

\* A spending proposal with one approval out of two has reached its
\* deadline on a Vault that is not paused: a signer that has not approved it
\* is refused with "Proposal expired".
C28_Witness ==
    /\ ~vaultPaused
    /\ \E p \in ExistingSpending :
          /\ Expired(p)
          /\ ~spendingProposals[p].executed
          /\ spendingProposals[p].approvals = 1
          /\ requiredSignatures = 2
          /\ \E s \in Users :
                /\ onlyAuthorizedSigner(s)
                /\ ~spendingProposals[p].hasApproved[s]
                /\ approveSpendingProposalResult(s, p) = "Proposal expired"

\* C29: a spending proposal whose approval count was below
\* requiredSignatures when its deadline passed is expired for good: in no
\* later state, after any sequence of operations, updateRequiredSignatures
\* and executeSpendingProposal included, is it executed.
C29_ExpiredStaysUnexecuted ==
    \A p \in lapsed : ~spendingProposals[p].executed

(***************************************************************************)
(* The attached vault of the DAO.                                          *)
(***************************************************************************)
\* C30, as stated: attachVault fails with "Vault already attached" when a
\* vault is attached and with "Invalid vault address" when its argument is
\* the zero address, and detachVault fails with "No vault attached" when no
\* vault is attached.
C30_Original ==
    \A s \in Users :
        /\ \A v \in VaultInputs \ {ZERO} :
              attachedVault # ZERO => attachVaultResult(s, v) = "Vault already attached"
        /\ attachVaultResult(s, ZERO) = "Invalid vault address"
        /\ attachedVault = ZERO => detachVaultResult(s) = "No vault attached"

\* C30, amended: a DAO has at most one attached vault at a time.
\* attachVault succeeds only when attachedVault is the zero address and the
\* argument is non-zero, and then attachedVault is the argument; called by
\* the owner of a DAO that is not paused it fails with "Invalid vault
\* address" for the zero address and else with "Vault already attached"
\* when a vault is attached.  detachVault succeeds only when a vault is
\* attached, and resets attachedVault to zero; called by the owner of a
\* DAO that is not paused it fails with "No vault attached" otherwise.
\* attachedVault changes only from zero to a vault and from a vault to
\* zero, so a different vault is attached only after a detach.
C30_OneAttachedVault ==
    /\ [](/\ attachedVault \in VaultInputs
          /\ \A s \in Users :
                /\ \A v \in VaultInputs :
                      /\ attachVaultResult(s, v) = "ok"
                            => (attachedVault = ZERO /\ v # ZERO)
                      /\ (s = owner /\ ~paused) =>
                            attachVaultResult(s, v) =
                               IF v = ZERO THEN "Invalid vault address"
                               ELSE IF attachedVault # ZERO THEN "Vault already attached"
                               ELSE "ok"
                /\ detachVaultResult(s) = "ok" => attachedVault # ZERO
                /\ (s = owner /\ ~paused) =>
                      detachVaultResult(s) =
                         IF attachedVault = ZERO THEN "No vault attached" ELSE "ok")
    /\ [][/\ \A s \in Users, v \in VaultInputs :
                attachVault(s, v) => attachedVault' = v
          /\ \A s \in Users : detachVault(s) => attachedVault' = ZERO
          /\ attachedVault' # attachedVault =>
                \/ /\ attachedVault = ZERO
                   /\ \E v \in VaultInputs \ {ZERO} : attachVault(owner, v)
                \/ /\ attachedVault' = ZERO
                   /\ detachVault(owner)]_vars

\* The second vault is attached, and the owner of the DAO, which is not
\* paused, is refused the attachment of the first vault.
C30_Witness ==
    /\ attachedVault = OtherVault
    /\ ~paused
    /\ owner # ZERO
    /\ attachVaultResult(owner, VAULT) = "Vault already attached"
    /\ detachVaultResult(owner) = "ok"

(***************************************************************************)
(* Properties of the two layers of vault bookkeeping.                      *)
(***************************************************************************)
\* The first DAO is deployed and its attachedVault is not the vault that the
\* factory records for it.
Mismatch ==
    /\ FirstDAO \in Deployed
    /\ attachedVault # daoToVault[FirstDAO]

\* C31: the two layers of vault bookkeeping are updated independently.
\* registerVault, unregisterVault and emergencyRemoveDAO of DAOFactory leave
\* attachedVault of the DAO unchanged; attachVault and detachVault of the
\* DAO leave daoToVault and vaultToDAO of the factory unchanged.  In a
\* state where attachedVault differs from daoToVault of the DAO no
\* operation is rejected for it: each call succeeds exactly under the
\* conditions on the caller, the pause flag and the fields of its own layer.
C31_IndependentLayers ==
    /\ [](Mismatch =>
            /\ owner = daoOwners[FirstDAO]
            /\ \A s \in Users :
                  /\ \A v \in VaultInputs :
                        /\ attachVaultResult(s, v) = "ok" <=>
                              (s = owner /\ ~paused /\ v # ZERO /\ attachedVault = ZERO)
                        /\ registerVaultResult(s, FirstDAO, v) = "ok" <=>
                              /\ s = daoOwners[FirstDAO]
                              /\ ~factoryPaused
                              /\ v # ZERO
                              /\ daoToVault[FirstDAO] = ZERO
                              /\ vaultToDAO[v] = ZERO
                  /\ detachVaultResult(s) = "ok" <=>
                        (s = owner /\ ~paused /\ attachedVault # ZERO)
                  /\ unregisterVaultResult(s, FirstDAO) = "ok" <=>
                        /\ s = daoOwners[FirstDAO]
                        /\ ~factoryPaused
                        /\ daoToVault[FirstDAO] # ZERO
                  /\ emergencyRemoveDAOResult(s, FirstDAO) = "ok" <=>
                        (s = factoryOwner /\ daoCount > 0))
    /\ [][/\ \A s \in Users, d \in DaoInputs :
                /\ \A v \in VaultInputs :
                      registerVault(s, d, v) => attachedVault' = attachedVault
                /\ unregisterVault(s, d) => attachedVault' = attachedVault
                /\ emergencyRemoveDAO(s, d) => attachedVault' = attachedVault
          /\ \A s \in Users :
                /\ \A v \in VaultInputs :
                      attachVault(s, v) =>
                         (daoToVault' = daoToVault /\ vaultToDAO' = vaultToDAO)
                /\ detachVault(s) =>
                      (daoToVault' = daoToVault /\ vaultToDAO' = vaultToDAO)]_vars

\* The DAO has the second vault attached while the factory records the
\* first one for it, and the owner can still detach and unregister.
C31_Witness ==
    /\ Mismatch
    /\ attachedVault = OtherVault
    /\ daoToVault[FirstDAO] = VAULT
    /\ vaultToDAO[VAULT] = FirstDAO
    /\ detachVaultResult(owner) = "ok"
    /\ unregisterVaultResult(owner, FirstDAO) = "ok"

(***************************************************************************)
(* Properties of the emergency removals.                                   *)
(***************************************************************************)
\* C32: emergencyRemoveDAO(d) succeeds only for the owner of DAOFactory.  It
\* removes d from allDAOs and keeps the other entries, clears the pair of d
\* in daoToVault and vaultToDAO when there is one, and changes nothing of
\* the DAOs themselves: not their owner, members, proposals or
\* attachedVault.  emergencyRemoveVault(v) succeeds only for the owner of
\* VaultFactory.  It removes v from allVaults and from daoVaults of the DAO
\* of v, keeps the other entries, clears vaultToDAO[v], and changes nothing
\* of the Vaults themselves.
C32_EmergencyRemoval ==
    [][/\ \A s \in Users, d \in DaoInputs :
            emergencyRemoveDAO(s, d) =>
               /\ s = factoryOwner
               /\ Range(allDAOs') = Range(allDAOs) \ {d}
               /\ Len(allDAOs') = Len(allDAOs) - (IF d \in Range(allDAOs) THEN 1 ELSE 0)
               /\ daoToVault'[d] = ZERO
               /\ \A v \in VaultInputs : vaultToDAO'[v] # d
               /\ \A e \in DaoInputs \ {d} : daoToVault'[e] = daoToVault[e]
               /\ \A v \in VaultInputs :
                     vaultToDAO[v] # d => vaultToDAO'[v] = vaultToDAO[v]
               /\ daoVars' = daoVars
               /\ daoOwners' = daoOwners
               /\ daoMembers' = daoMembers
       /\ \A s \in Users, v \in CreatedVaultInputs :
            emergencyRemoveVault(s, v) =>
               LET dao == factoryVaultToDAO[v] IN
               /\ s = vaultFactoryOwner
               /\ Range(allVaults') = Range(allVaults) \ {v}
               /\ Len(allVaults') = Len(allVaults) - 1
               /\ Range(daoVaults'[dao]) = Range(daoVaults[dao]) \ {v}
               /\ Len(daoVaults'[dao]) = Len(daoVaults[dao]) - 1
               /\ \A e \in VaultDaoInputs \ {dao} : daoVaults'[e] = daoVaults[e]
               /\ factoryVaultToDAO'[v] = ZERO
               /\ \A w \in CreatedVaultInputs \ {v} :
                     factoryVaultToDAO'[w] = factoryVaultToDAO[w]
               /\ createdVaults' = createdVaults
               /\ vaultVars' = vaultVars]_vars

\* The first DAO, with a vault attached and another one registered, and the
\* first Vault have been removed from the factories that still track a
\* second DAO and a second Vault; the removed DAO and Vault are as before.
C32_Witness ==
    /\ factoryNonce = 2
    /\ allDAOs = <<SecondDAO>>
    /\ daoToVault[FirstDAO] = ZERO
    /\ attachedVault = VAULT
    /\ daoOwners[FirstDAO] = Creator
    /\ vaultNonce = 2
    /\ allVaults = <<FirstVault + 1>>
    /\ factoryVaultToDAO[FirstVault] = ZERO
    /\ createdVaults[FirstVault].owner = Creator

(***************************************************************************)
(* Properties of the statistics of VaultFactory.                           *)
(***************************************************************************)
\* The DAOs that have at least one tracked vault.
DAOsWithVaults == {factoryVaultToDAO[allVaults[i]] : i \in 1..Len(allVaults)} \ {ZERO}

\* C33: getFactoryStats returns the number of tracked vaults as totalVaults,
\* the number of distinct DAOs with at least one tracked vault as
\* totalDAOsWithVaults, and the integer quotient of the two, or 0 when no
\* DAO has a vault, as averageVaultsPerDAO.
C33_FactoryStats ==
    LET n == Cardinality(DAOsWithVaults) IN
    /\ getFactoryStats.totalVaults = Len(allVaults)
    /\ getFactoryStats.totalDAOsWithVaults = n
    /\ getFactoryStats.averageVaultsPerDAO =
          IF n > 0 THEN Len(allVaults) \div n ELSE 0

(***************************************************************************)
(* Properties of the Vaults that VaultFactory creates.                     *)
(***************************************************************************)
\* C34: a Vault created through VaultFactory by caller c has c as its owner
\* and as its first authorized signer: authorizedSigners[c] is true and
\* getSigners() returns exactly [c].  No function of the limit
\* specification changes the owner or the signers of a created Vault, so
\* this is stated of every deployed Vault.
C34_CreatorIsFirstSigner ==
    \A v \in DeployedVaults :
        \E c \in DaoCreators :
            /\ createdVault_owner(v) = c
            /\ createdVault_authorizedSigners(v, c)
            /\ createdVault_getSigners(v) = <<c>>

(***************************************************************************)
(* Properties of the signer list of the Vault.                             *)
(***************************************************************************)
\* C35, as stated: signerList has no duplicates, at most MAX_SIGNERS entries
\* and exactly the addresses flagged in authorizedSigners, and addSigner of
\* a further signer to a full list fails with "Max signers reached",
\* whoever calls it.
C35_Original ==
    /\ \A i, j \in 1..Len(signerList) : signerList[i] = signerList[j] => i = j
    /\ Len(signerList) <= MAX_SIGNERS
    /\ Range(signerList) = {a \in SignerAddr : authorizedSigners[a]}
    /\ \A s \in Users, a \in SignerAddr \ {ZERO} :
          (Len(signerList) = MAX_SIGNERS /\ ~authorizedSigners[a])
             => addSignerResult(s, a) = "Max signers reached"

\* C35, amended: in every reachable state of a Vault, signerList has no
\* duplicates, has at most MAX_SIGNERS entries, and holds exactly the
\* addresses whose flag in authorizedSigners is true, after any sequence of
\* addSigner and removeSigner; addSigner by the owner of a Vault that is
\* not paused, of a new non-zero address when the list is full, fails with
\* "Max signers reached".
C35_SignerList ==
    /\ \A i, j \in 1..Len(signerList) : signerList[i] = signerList[j] => i = j
    /\ Len(signerList) <= MAX_SIGNERS
    /\ Range(signerList) = {a \in SignerAddr : authorizedSigners[a]}
    /\ \A a \in SignerAddr \ {ZERO} :
          (Len(signerList) = MAX_SIGNERS /\ ~authorizedSigners[a] /\ ~vaultPaused)
             => addSignerResult(vaultOwner, a) = "Max signers reached"

\* The list holds MAX_SIGNERS signers after a removal from its middle, and
\* the owner is refused a further one.
C35_Witness ==
    /\ Len(signerList) = MAX_SIGNERS
    /\ ~authorizedSigners[SecondSigner]
    /\ signerList[2] # SignerBase + 1
    /\ signerList[2] \in ExtraSigners
    /\ ~vaultPaused
    /\ addSignerResult(vaultOwner, SecondSigner) = "Max signers reached"

(***************************************************************************)
(* Properties of the counters of the factories.                            *)
(***************************************************************************)
\* C36: in every reachable state daoCount of DAOFactory equals the length
\* of allDAOs, and vaultCount of VaultFactory equals the length of
\* allVaults, after any sequence of creations and emergency removals, the
\* removal of an address that is not tracked included.
C36_CountsMatchLists ==
    /\ daoCount = Len(allDAOs)
    /\ vaultCount = Len(allVaults)

(***************************************************************************)
(* Properties of the approvals behind an execution.                        *)
(***************************************************************************)
\* The addresses that approved proposal p and that pass onlyAuthorizedSigner.
AuthorizedApprovers(p) == {a \in Approvers(p) : onlyAuthorizedSigner(a)}

\* C37: whenever a spending proposal becomes executed, at least
\* requiredSignatures of the distinct addresses that approved it are
\* authorized at that moment, as signers or as the owner; the approval of an
\* address that has been removed from the signers since does not count.
C37_AuthorizedApprovals ==
    [][\A p \in 1..spendingProposalCount :
          (~spendingProposals[p].executed /\ spendingProposals'[p].executed)
             => (Cardinality(AuthorizedApprovers(p)) >= requiredSignatures)']_vars

(***************************************************************************)
(* Properties of the execution conditions of a DAO proposal over time.     *)
(***************************************************************************)
\* Proposal p is past its deadline, not executed, and satisfies the
\* conditions of executeProposal on the votes: quorum and majority.
Executable(p) ==
    /\ validProposal(p)
    /\ now >= proposals[p].deadline
    /\ ~proposals[p].executed
    /\ totalVotes(proposals[p]) >= requiredQuorum
    /\ proposals[p].yesVotes > proposals[p].noVotes

\* C38, as stated: a proposal that is executable stays executable until it
\* is executed, whatever addMember, removeMember or setQuorumPercentage do.
C38_Original ==
    [][\A p \in 1..proposalCount :
          Executable(p) => (Executable(p)' \/ proposals'[p].executed)]_vars

\* C38, amended: executeProposal compares the votes with the quorum of the
\* current memberCount and quorumPercentage.  While the DAO is not paused,
\* executeProposal succeeds on exactly the executable proposals.  The votes
\* and the deadline of an executable proposal no longer change, and
\* removeMember and the passing of time leave it executable; it stops
\* being executable without being executed only when addMember or
\* setQuorumPercentage raises the required quorum above its votes, and
\* executeProposal then fails with "Quorum not reached".
C38_ExecutableUntilQuorumRises ==
    /\ [](\A p \in ProposalIds :
            ~paused => (Executable(p) <=> executeProposalResult(p) = "ok"))
    /\ [][\A p \in 1..proposalCount :
            Executable(p) =>
               /\ proposals'[p].yesVotes = proposals[p].yesVotes
               /\ proposals'[p].noVotes = proposals[p].noVotes
               /\ proposals'[p].deadline = proposals[p].deadline
               /\ (\E s \in Users, m \in Addr : removeMember(s, m)) => Executable(p)'
               /\ (~Executable(p)' /\ ~proposals'[p].executed) =>
                     /\ requiredQuorum' > requiredQuorum
                     /\ \/ \E s \in Users, m \in Addr : addMember(s, m)
                        \/ \E s \in Users, q \in QuorumInputs :
                              setQuorumPercentage(s, q)
                     /\ ~paused' => executeProposalResult(p)' = "Quorum not reached"]_vars

\* Proposal 1 is executable with all members having voted and a quorum of
\* 100 percent, and the owner can add a member, which raises the required
\* quorum above the votes.
C38_Witness ==
    /\ Executable(1)
    /\ ~paused
    /\ executeProposalResult(1) = "ok"
    /\ quorumPercentage = 100
    /\ totalVotes(proposals[1]) = memberCount
    /\ \E m \in Users : addMemberResult(owner, m) = "ok"

(***************************************************************************)
(* Properties of the vote counts of a DAO proposal.                        *)
(***************************************************************************)
\* The addresses recorded as having voted on proposal p.
Voters(p) == {a \in Addr : proposals[p].hasVoted[a]}

\* C39: for every proposal in every reachable state, yesVotes + noVotes is
\* the number of addresses recorded as having voted on it; neither count
\* ever decreases, also when a voter is removed from the members; and vote
\* and executeProposal can never both succeed on the same proposal in the
\* same state: votes are taken only before the deadline, execution only
\* from the deadline on.
C39_VoteCounts ==
    /\ [](\A p \in 1..proposalCount :
            /\ totalVotes(proposals[p]) = Cardinality(Voters(p))
            /\ \A s \in Users :
                  /\ ~(voteResult(s, p) = "ok" /\ executeProposalResult(p) = "ok")
                  /\ voteResult(s, p) = "ok" => now < proposals[p].deadline
                  /\ executeProposalResult(p) = "ok" => now >= proposals[p].deadline)
    /\ [][\A p \in 1..proposalCount :
            /\ proposals'[p].yesVotes >= proposals[p].yesVotes
            /\ proposals'[p].noVotes >= proposals[p].noVotes]_vars

\* Proposal 1 has a yes and a no vote, one of the voters has been removed
\* from the members, and a member who has not voted can still vote while
\* execution has to wait for the deadline.
C39_Witness ==
    /\ proposalCount = 1
    /\ proposals[1].yesVotes = 1
    /\ proposals[1].noVotes = 1
    /\ \E a \in Voters(1) : ~onlyMember(a)
    /\ \E s \in Users : voteResult(s, 1) = "ok"
    /\ executeProposalResult(1) = "Voting period not ended"

(***************************************************************************)
(* Properties of an approval that the tracked balance cannot cover.        *)
(***************************************************************************)
\* The approval of proposal p by s passes every requirement of
\* approveSpendingProposal and brings the approvals to requiredSignatures.
DecidingApproval(s, p) ==
    /\ onlyAuthorizedSigner(s)
    /\ ~vaultPaused
    /\ validSpendingProposal(p)
    /\ now < spendingProposals[p].deadline
    /\ ~spendingProposals[p].executed
    /\ ~spendingProposals[p].hasApproved[s]
    /\ thresholdReached(spendingProposals[p].approvals + 1)

\* The tracked balance of the asset of proposal p is below its amount.
Uncovered(p) == tokenBalances[spendingProposals[p].token] < spendingProposals[p].amount

\* C40: when the tracked balance of the asset of a proposal is below its
\* amount, an approveSpendingProposal that would bring the approvals to
\* requiredSignatures fails as a whole, with the arithmetic panic of the
\* subtraction: no approval step is taken from such a state, so the
\* approval is not recorded and the count and the balance stay as they
\* are.  The tracked balances never go below zero.  The same approval
\* succeeds as soon as the balance covers the amount.
C40_UncoveredApprovalFails ==
    /\ [](/\ \A t \in Assets : tokenBalances[t] >= 0
          /\ \A s \in Users, p \in 1..spendingProposalCount :
                DecidingApproval(s, p) =>
                   approveSpendingProposalResult(s, p) =
                      IF Uncovered(p)
                      THEN "Panic: arithmetic underflow or overflow (0x11)"
                      ELSE "ok")
    /\ [][\A s \in Users, p \in SpendingIds, ok \in BOOLEAN :
            approveSpendingProposal(s, p, ok) =>
               ~(thresholdReached(spendingProposals[p].approvals + 1) /\ Uncovered(p))]_vars

\* The owner's approval of proposal 1 would be the deciding one, and the
\* tracked balance, which is not zero, does not cover the amount.
C40_Witness ==
    /\ spendingProposalCount = 1
    /\ DecidingApproval(vaultOwner, 1)
    /\ Uncovered(1)
    /\ tokenBalances[spendingProposals[1].token] > 0
    /\ spendingProposals[1].approvals = 0
    /\ approveSpendingProposalResult(vaultOwner, 1)
          = "Panic: arithmetic underflow or overflow (0x11)"

====
